---- MODULE Spec2Model ----
(***************************************************************************)
(* FACTURA-ACOUNT: the invoicing logic of src/App.tsx as a state machine.  *)
(*                                                                         *)
(* State: the collections held by useLocalStorage (in memory and in the    *)
(* browser store), the page shown, InvoicesPage's view and selected        *)
(* invoice, and InvoiceForm's draft.  One action per handler.              *)
(*                                                                         *)
(* Modelling choices:                                                      *)
(*  - an amount is an integer (currency units);                            *)
(*  - a date string "YYYY-MM-DD" is a record [y, m, d]; a JS Date is its   *)
(*    time value in hours since the epoch, read through the local offset   *)
(*    tz (hours east of UTC, fixed: no daylight-saving change);            *)
(*  - a notes string is a sequence of paragraphs: user text, the two fixed *)
(*    sentences, and the blank line "\n\n" that separates them; includes() *)
(*    is containment of a paragraph;                                       *)
(*  - generateId() is a fresh number per collection;                       *)
(*  - the objects of formData.items that InvoiceForm shares with the       *)
(*    invoice being edited are tracked in itemRefs (0: an object of the    *)
(*    form only, k: the k-th item object of the selected invoice).         *)
(*  - fields no handler reads or derives (names, addresses, item ids and   *)
(*    descriptions, stock quantities) are left out;                        *)
(*  - new Date() is the variable now, in hours since the epoch; the clock  *)
(*    moves by Tick;                                                       *)
(*  - useLocalStorage starts from what the store holds (lines 18-26): the  *)
(*    specifications of the dashboard start from stores that hold invoices *)
(*    of every status, which no form of this program can set.              *)
(***************************************************************************)
EXTENDS Integers, Sequences, FiniteSets, TLC

(* ------------------------------ bounds -------------------------------- *)

\* clients in the collection
MaxClients == 1
\* invoices in the collection, where their numbering is followed
MaxInvoices == 2
\* invoices in the collection, where one invoice's derived fields are followed
MaxDerived == 1
\* items of one invoice
MaxItems == 2
\* invoices of a store the session starts from
MaxStored == 2
\* expenses in the collection
MaxExpenses == 2
\* invoices of a store whose maintenance dates the dashboard lists
MaxUpcoming == 3
\* articles in the inventory
MaxInventory == 2
\* services in the collection
MaxServices == 1

(* --------------------------- input domains ---------------------------- *)

ClientTypes == {"Residencial", "Comercial"}

\* local offsets of the browser, hours east of UTC
Offsets == {-4, 0, 2}
\* the offset of the locale the amounts are formatted for (es-DO, line 12)
HomeOffsets == {-4}

Date(y, m, d) == [y |-> y, m |-> m, d |-> d]
NoDate == Date(0, 0, 0)

\* "now" of the session: new Date() at line 801
Today == Date(2024, 8, 31)

(* ----------------------------- JS Date -------------------------------- *)

\* days since 1970-01-01 of a civil date (MakeDay)
DaysFromCivil(y, m, d) ==
    LET yy  == IF m <= 2 THEN y - 1 ELSE y
        era == yy \div 400
        yoe == yy - era * 400
        mp  == IF m > 2 THEN m - 3 ELSE m + 9
        doy == (153 * mp + 2) \div 5 + d - 1
        doe == yoe * 365 + yoe \div 4 - yoe \div 100 + doy
    IN  era * 146097 + doe - 719468

\* civil date of a day number (YearFromTime, MonthFromTime, DateFromTime)
CivilFromDays(n) ==
    LET z   == n + 719468
        era == z \div 146097
        doe == z - era * 146097
        yoe == (doe - doe \div 1460 + doe \div 36524 - doe \div 146096) \div 365
        doy == doe - (365 * yoe + yoe \div 4 - yoe \div 100)
        mp  == (5 * doy + 2) \div 153
        d   == doy - (153 * mp + 2) \div 5 + 1
        m   == IF mp < 10 THEN mp + 3 ELSE mp - 9
        y   == yoe + era * 400 + (IF m <= 2 THEN 1 ELSE 0)
    IN  Date(y, m, d)

\* new Date("YYYY-MM-DD"): midnight UTC, in hours since the epoch
NewDate(s) == DaysFromCivil(s.y, s.m, s.d) * 24

\* date.setMonth(date.getMonth() + k) in a browser whose offset is off:
\* the local fields are read, the month is moved, overflow is normalised
SetMonthPlus(t, k, off) ==
    LET local == t + off
        f     == CivilFromDays(local \div 24)
        hour  == local % 24
        m0    == (f.m - 1) + k
        yy    == f.y + m0 \div 12
        mm    == (m0 % 12) + 1
        days  == DaysFromCivil(yy, mm, 1) + (f.d - 1)
    IN  (days * 24 + hour) - off

\* date.toISOString().split('T')[0]
ToISODate(t) == CivilFromDays(t \div 24)

(* ------------------------------ notes --------------------------------- *)

Para(kind, n) == [kind |-> kind, months |-> n]
BlankLine == Para("\n\n", 0)
UserText == Para("user", 0)
\* "Garantia de un ano. La garantia solo cubre danos por naturaleza ..."
warrantyText == Para("Garantia", 0)
\* `Recomendacion: Realizar el primer mantenimiento preventivo en ${n} meses ...`
maintenanceText(maintenanceMonths) == Para("Recomendacion", maintenanceMonths)

\* notes.includes(text)
Includes(notes, text) == \E i \in 1..Len(notes) : notes[i] = text

\* notes ? `${notes}\n\n${text}` : text
Appended(notes, text) ==
    IF notes # <<>> THEN notes \o <<BlankLine, text>> ELSE <<text>>

(* --------------------------- invoice items ---------------------------- *)

Item(q, p, mt, ne) ==
    [quantity |-> q, unitPrice |-> p, isMaintenance |-> mt, isNewEquipment |-> ne]

\* the item a new form and handleAddItem start with
BlankItem == Item(1, 0, FALSE, FALSE)

RECURSIVE ReduceFrom(_, _, _)
ReduceFrom(items, i, sum) ==
    IF i > Len(items) THEN sum
    ELSE ReduceFrom(items, i + 1, sum + items[i].quantity * items[i].unitPrice)

RECURSIVE ReducePositiveFrom(_, _, _)
ReducePositiveFrom(items, i, sum) ==
    IF i > Len(items) THEN sum
    ELSE ReducePositiveFrom(items, i + 1,
            IF items[i].quantity > 0 /\ items[i].unitPrice > 0
            THEN sum + items[i].quantity * items[i].unitPrice ELSE sum)

\* a reduce that leaves out the items a validating form would have refused
ItemsTotalOfValid(items) == ReducePositiveFrom(items, 1, 0)

\* items.reduce((sum, item) => sum + item.quantity * item.unitPrice, 0)
ItemsTotal(items) == ReduceFrom(items, 1, 0)

hasMaintenance(items) == \E i \in 1..Len(items) : items[i].isMaintenance
hasNewEquipment(items) == \E i \in 1..Len(items) : items[i].isNewEquipment

(* ------------------------- invoice derivation ------------------------- *)

NoClient == [id |-> 0, type |-> "none"]

\* clients.find(c => c.id === id)
RECURSIVE FindFrom(_, _, _)
FindFrom(cs, id, i) ==
    IF i > Len(cs) THEN NoClient
    ELSE IF cs[i].id = id THEN cs[i] ELSE FindFrom(cs, id, i + 1)

FindClient(cs, id) == FindFrom(cs, id, 1)

\* lines 862-867 without the else of line 868: the date is set, never cleared
NextMaintenanceKept(data, off) ==
    IF hasMaintenance(data.items)
    THEN ToISODate(SetMonthPlus(NewDate(data.issueDate), 6, off))
    ELSE data.nextMaintenanceDate

\* lines 862-869
NextMaintenance(data, off) ==
    IF hasMaintenance(data.items)
    THEN ToISODate(SetMonthPlus(NewDate(data.issueDate), 6, off))
    ELSE NoDate

\* lines 871-875 without the includes() test of line 873
WithWarrantyAlways(notes, items) ==
    IF hasNewEquipment(items) THEN Appended(notes, warrantyText) ELSE notes

RECURSIVE Without(_, _)
Without(notes, text) ==
    IF notes = <<>> THEN <<>>
    ELSE (IF Head(notes) = text THEN <<>> ELSE <<Head(notes)>>)
            \o Without(Tail(notes), text)

\* lines 871-875 with the sentence taken out again once no item is new equipment
WithWarrantyRetracted(notes, items) ==
    IF hasNewEquipment(items)
    THEN (IF Includes(notes, warrantyText) THEN notes
          ELSE Appended(notes, warrantyText))
    ELSE Without(notes, warrantyText)

\* lines 871-875
WithWarranty(notes, items) ==
    IF hasNewEquipment(items) /\ ~Includes(notes, warrantyText)
    THEN Appended(notes, warrantyText)
    ELSE notes

\* line 878 with the two intervals exchanged
maintenanceMonthsExchanged(client) == IF client.type = "Comercial" THEN 6 ELSE 3

\* line 878
maintenanceMonths(client) == IF client.type = "Comercial" THEN 3 ELSE 6

\* lines 877-883
WithRecommendation(notes, items, client) ==
    IF hasNewEquipment(items)
          /\ ~Includes(notes, maintenanceText(maintenanceMonths(client)))
    THEN Appended(notes, maintenanceText(maintenanceMonths(client)))
    ELSE notes

\* lines 859-885 with the two blocks of lines 873-875 and 877-883 exchanged
FinalDataRecommendationFirst(data, client, off) ==
    [data EXCEPT
        !.nextMaintenanceDate = NextMaintenance(data, off),
        !.notes = WithWarranty(WithRecommendation(data.notes, data.items, client),
                               data.items)]

\* lines 859-885: finalData
FinalData(data, client, off) ==
    [data EXCEPT
        !.nextMaintenanceDate = NextMaintenance(data, off),
        !.notes = WithRecommendation(WithWarranty(data.notes, data.items),
                                     data.items, client)]

(* -------------------------- invoice numbers --------------------------- *)

RECURSIVE ToDigits(_)
\* n.toString()
ToDigits(n) == IF n < 10 THEN <<n>> ELSE ToDigits(n \div 10) \o <<n % 10>>

RECURSIVE PadStart(_, _, _)
\* s.padStart(len, fill)
PadStart(s, len, fill) ==
    IF Len(s) >= len THEN s ELSE PadStart(<<fill>> \o s, len, fill)

NoNumber == [prefix |-> "", digits |-> <<>>]

RECURSIVE FromDigits(_)
FromDigits(digits) ==
    IF digits = <<>> THEN 0
    ELSE FromDigits(SubSeq(digits, 1, Len(digits) - 1)) * 10 + digits[Len(digits)]

RECURSIVE MaxNumberFrom(_, _, _)
MaxNumberFrom(invs, i, max) ==
    IF i > Len(invs) THEN max
    ELSE MaxNumberFrom(invs, i + 1,
            IF FromDigits(invs[i].invoiceNumber.digits) > max
            THEN FromDigits(invs[i].invoiceNumber.digits) ELSE max)

\* line 727 numbering from the largest number in use, not from the size
NewInvoiceNumberFromMax(invs) ==
    [prefix |-> "INV-",
     digits |-> PadStart(ToDigits(MaxNumberFrom(invs, 1, 0) + 1), 4, 0)]

\* line 727 numbering from the size itself, the + 1 forgotten
NewInvoiceNumberFromSize(invs) ==
    [prefix |-> "INV-", digits |-> PadStart(ToDigits(Len(invs)), 4, 0)]

\* line 727: `INV-${(invoices.length + 1).toString().padStart(4, '0')}`
NewInvoiceNumber(invs) ==
    [prefix |-> "INV-", digits |-> PadStart(ToDigits(Len(invs) + 1), 4, 0)]

(* ------------------------------ state --------------------------------- *)

VARIABLES
    tz,               \* the browser's offset from UTC, hours
    currentPage,      \* App.currentPage
    clients,          \* useLocalStorage('clients'): the value in memory
    invoices,         \* useLocalStorage('invoices'): the value in memory
    lsClients,        \* localStorage['clients']
    lsInvoices,       \* localStorage['invoices']
    view,             \* InvoicesPage.view
    selectedInvoice,  \* InvoicesPage.selectedInvoice: its id, 0 for null
    formData,         \* InvoiceForm.formData
    itemRefs,         \* which objects of formData.items the invoice shares
    alertMsg,         \* the message of the alert() raised by the last step
    done,             \* the handler call just completed, with its inputs
    lastSave,         \* the invoice handleSaveInvoice last wrote, and its client
    everDeleted,      \* whether handleDeleteInvoice has removed an invoice
    now,              \* the time value of new Date(), hours since the epoch
    inventory,        \* useLocalStorage('inventory'): the value in memory
    services,         \* useLocalStorage('services'): the value in memory
    expenses,         \* useLocalStorage('expenses'): the value in memory
    lsInventory,      \* localStorage['inventory']
    lsServices,       \* localStorage['services']
    lsExpenses,       \* localStorage['expenses']
    activeTab,        \* InventoryPage.activeTab
    serviceForm,      \* ServiceForm: the service edited and formData, or closed
    console           \* what console.error has logged: the hook's call and key

vars == <<tz, currentPage, clients, invoices, lsClients, lsInvoices,
          view, selectedInvoice, formData, itemRefs, alertMsg, done, lastSave,
          everDeleted, now, inventory, services, expenses, lsInventory,
          lsServices, lsExpenses, activeTab, serviceForm, console>>

\* what the handlers of ClientsPage and InvoicesPage leave alone
workshop == <<now, inventory, services, expenses, lsInventory, lsServices,
              lsExpenses, activeTab, serviceForm>>

\* ServiceForm is not mounted
NoServiceForm == [service |-> 0, items |-> <<>>, laborCost |-> 0, open |-> FALSE]

\* the instant the session of a first start begins: noon UTC of Today
SessionStart == NewDate(Today) + 12

NoForm ==
    [clientId |-> 0, issueDate |-> NoDate, dueDate |-> NoDate, items |-> <<>>,
     notes |-> <<>>, status |-> "", lastMaintenanceDate |-> NoDate,
     nextMaintenanceDate |-> NoDate]

NoCall == [op |-> "none"]
NoSave == [id |-> 0, client |-> [id |-> 0, type |-> "none"]]

Indexes(s) == 1..Len(s)

\* the invoice object selectedInvoice points to
IndexOfInvoice(id) ==
    IF \E i \in Indexes(invoices) : invoices[i].id = id
    THEN CHOOSE i \in Indexes(invoices) : invoices[i].id = id
    ELSE 0

\* generateId(), line 13: an id no object of the collection holds
FreshId(used) == CHOOSE id \in 1..(Cardinality(used) + 1) : id \notin used

ClientIds == {clients[i].id : i \in Indexes(clients)}
\* ids of clients that invoices, stored or drafted, still name
NamedClientIds ==
    {invoices[i].clientId : i \in Indexes(invoices)}
        \cup {lsInvoices[i].clientId : i \in Indexes(lsInvoices)}
InvoiceIds == {invoices[i].id : i \in Indexes(invoices)}

(* ------------------------------- Init --------------------------------- *)

\* a first start: nothing in the store, App on its dashboard (lines 139-145)
InitIn(offsets) ==
    /\ tz \in offsets
    /\ currentPage = "dashboard"
    /\ clients = <<>>
    /\ invoices = <<>>
    /\ lsClients = <<>>
    /\ lsInvoices = <<>>
    /\ view = "list"
    /\ selectedInvoice = 0
    /\ formData = NoForm
    /\ itemRefs = <<>>
    /\ alertMsg = ""
    /\ done = NoCall
    /\ lastSave = NoSave
    /\ everDeleted = FALSE
    /\ now = SessionStart
    /\ inventory = <<>> /\ lsInventory = <<>>
    /\ console = {}
    /\ services = <<>> /\ lsServices = <<>>
    /\ expenses = <<>> /\ lsExpenses = <<>>
    /\ activeTab = "items"
    /\ serviceForm = NoServiceForm

(* --------------------------- useLocalStorage -------------------------- *)

\* the outcomes of window.localStorage.setItem: stored, or it throws
WriteOutcomes == {TRUE, FALSE}

\* lines 28-36 with an empty catch: nothing is logged
setInvoicesUnlogged(value, stored) ==
    /\ invoices' = value
    /\ lsInvoices' = IF stored THEN value ELSE lsInvoices
    /\ console' = console

\* lines 28-36, setValue of 'invoices': the state in memory is set first, then
\* the store is written; a throw is caught and logged
setInvoices(value, stored) ==
    /\ invoices' = value
    /\ lsInvoices' = IF stored THEN value ELSE lsInvoices
    /\ console' = IF stored THEN console ELSE console \cup {<<"setValue", "invoices">>}

\* lines 28-36, setValue of 'clients'
setClients(value, stored) ==
    /\ clients' = value
    /\ lsClients' = IF stored THEN value ELSE lsClients
    /\ console' = IF stored THEN console ELSE console \cup {<<"setValue", "clients">>}

\* a stored text that is not what setValue wrote: the key is not there
\* (getItem gives null), the text is empty, or it is no JSON
TextKinds == {"missing", "empty", "garbled"}
DamagedText(kind) == <<[damaged |-> kind]>>

\* lines 18-26 without the catch of lines 22-25: JSON.parse's exception
\* leaves the function
useLocalStorageUncaught(text, initialValue) ==
    IF text \in {DamagedText("missing"), DamagedText("empty")}
    THEN [value |-> initialValue, logged |-> FALSE, thrown |-> FALSE]
    ELSE IF text = DamagedText("garbled")
         THEN [value |-> initialValue, logged |-> FALSE, thrown |-> TRUE]
         ELSE [value |-> text, logged |-> FALSE, thrown |-> FALSE]

\* lines 18-26, the initial state of the hook for the text of its key: the
\* value, whether console.error was called, whether an exception leaves the
\* function
useLocalStorage(text, initialValue) ==
    IF text \in {DamagedText("missing"), DamagedText("empty")}
    THEN [value |-> initialValue, logged |-> FALSE, thrown |-> FALSE]
    ELSE IF text = DamagedText("garbled")
         THEN [value |-> initialValue, logged |-> TRUE, thrown |-> FALSE]
         ELSE [value |-> text, logged |-> FALSE, thrown |-> FALSE]

\* App renders again after a collection or the page changes; the page
\* components are declared inside App, so InvoicesPage and its form are
\* mounted anew with their initial state (lines 704-705)
InvoicesPageMounted ==
    /\ view' = "list"
    /\ selectedInvoice' = 0
    /\ formData' = NoForm
    /\ itemRefs' = <<>>

\* InventoryPage and what it holds are mounted anew likewise (lines 385, 499-500)
InventoryPageMounted ==
    /\ activeTab' = "items"
    /\ serviceForm' = NoServiceForm

RECURSIVE InsertByDate(_, _)
\* sorted, with e put after the elements that are not older than it
InsertByDate(sorted, e) ==
    IF sorted = <<>> THEN <<e>>
    ELSE IF NewDate(Head(sorted).date) >= NewDate(e.date)
         THEN <<Head(sorted)>> \o InsertByDate(Tail(sorted), e)
         ELSE <<e>> \o sorted

RECURSIVE SortedFrom(_, _, _)
SortedFrom(exps, i, sorted) ==
    IF i > Len(exps) THEN sorted
    ELSE SortedFrom(exps, i + 1, InsertByDate(sorted, exps[i]))

\* line 681: expenses.sort((a, b) => new Date(b.date) - new Date(a.date)), the
\* newest first and equal dates in the order they had; the array in memory is
\* sorted in place each time ExpensesPage renders
SortedByDate(exps) == SortedFrom(exps, 1, <<>>)

(* ------------------------------ App ----------------------------------- *)

Pages == {"dashboard", "clients", "invoices"}
\* the pages of the sidebar that hold state of this model (lines 188-197)
AllPages == Pages \cup {"inventory", "expenses"}

\* line 139: setCurrentPage(page), from the sidebar
setCurrentPage(page) ==
    /\ page # currentPage
    /\ currentPage' = page
    /\ InvoicesPageMounted
    /\ alertMsg' = ""
    /\ done' = NoCall
    /\ InventoryPageMounted
    /\ expenses' = IF page = "expenses" THEN SortedByDate(expenses) ELSE expenses
    /\ UNCHANGED <<tz, console, clients, invoices, lsClients, lsInvoices, lastSave, everDeleted,
                   now, inventory, services, lsInventory, lsServices, lsExpenses>>

\* the texts of the five keys
StoredTexts ==
    [clients |-> lsClients, invoices |-> lsInvoices, inventory |-> lsInventory,
     expenses |-> lsExpenses, services |-> lsServices]

\* lines 139-145: App is mounted (the page is loaded anew) and every
\* collection starts as its hook reads it from the store; an exception in a
\* hook leaves nothing rendered
AppMounted ==
    LET loaded == [key \in DOMAIN StoredTexts |->
                      useLocalStorage(StoredTexts[key], <<>>)]
        thrown == \E key \in DOMAIN loaded : loaded[key].thrown
    IN  /\ clients' = loaded.clients.value
        /\ invoices' = loaded.invoices.value
        /\ inventory' = loaded.inventory.value
        /\ expenses' = loaded.expenses.value
        /\ services' = loaded.services.value
        /\ console' = console \cup {<<"useState", key>> : key \in
                                       {k \in DOMAIN loaded : loaded[k].logged}}
        /\ currentPage' = IF thrown THEN "blank" ELSE "dashboard"
        /\ InvoicesPageMounted /\ InventoryPageMounted
        /\ alertMsg' = ""
        /\ done' = [op |-> "App", texts |-> StoredTexts, thrown |-> thrown]
        /\ UNCHANGED <<tz, now, lsClients, lsInvoices, lsInventory, lsExpenses,
                       lsServices, lastSave, everDeleted>>

\* outside the program: the text of a key is removed, emptied or garbled
StoreDamaged(key, kind) ==
    /\ StoredTexts[key] # DamagedText(kind)
    /\ lsClients' = IF key = "clients" THEN DamagedText(kind) ELSE lsClients
    /\ lsInvoices' = IF key = "invoices" THEN DamagedText(kind) ELSE lsInvoices
    /\ lsInventory' = IF key = "inventory" THEN DamagedText(kind) ELSE lsInventory
    /\ lsExpenses' = IF key = "expenses" THEN DamagedText(kind) ELSE lsExpenses
    /\ lsServices' = IF key = "services" THEN DamagedText(kind) ELSE lsServices
    /\ done' = NoCall
    /\ UNCHANGED <<tz, now, currentPage, clients, invoices, inventory, expenses,
                   services, view, selectedInvoice, formData, itemRefs, alertMsg,
                   lastSave, everDeleted, activeTab, serviceForm, console>>

(* --------------------------- ClientsPage ------------------------------ *)

RECURSIVE ClientsWithout(_, _)
\* prev.filter(c => c.id !== clientId)
ClientsWithout(cs, clientId) ==
    IF cs = <<>> THEN <<>>
    ELSE (IF Head(cs).id # clientId THEN <<Head(cs)>> ELSE <<>>)
            \o ClientsWithout(Tail(cs), clientId)

RECURSIVE InvoicesNotOf(_, _)
InvoicesNotOf(invs, clientId) ==
    IF invs = <<>> THEN <<>>
    ELSE (IF Head(invs).clientId # clientId THEN <<Head(invs)>> ELSE <<>>)
            \o InvoicesNotOf(Tail(invs), clientId)

\* lines 297-302 taking the invoices of the client along
handleDeleteClientAndInvoices(clientId, stored) ==
    /\ currentPage = "clients"
    /\ setClients(ClientsWithout(clients, clientId), stored)
    /\ setInvoices(InvoicesNotOf(invoices, clientId), stored)
    /\ InvoicesPageMounted
    /\ alertMsg' = ""
    /\ done' = NoCall
    /\ UNCHANGED <<tz, workshop, currentPage, lastSave, everDeleted>>

\* lines 297-302, the confirm() accepted
handleDeleteClient(clientId, stored) ==
    /\ currentPage = "clients"
    /\ setClients(ClientsWithout(clients, clientId), stored)
    /\ InvoicesPageMounted
    /\ alertMsg' = ""
    /\ done' = NoCall
    /\ UNCHANGED <<tz, workshop, currentPage, invoices, lsInvoices, lastSave, everDeleted>>

\* lines 304-311: editingClient is null and the client is added with a new
\* id, or it is set and the client of that id is replaced
handleSaveClient(editingClient, client, stored) ==
    /\ currentPage = "clients"
    /\ IF editingClient # NoClient
       THEN setClients([i \in Indexes(clients) |->
                           IF clients[i].id = client.id THEN client ELSE clients[i]],
                       stored)
       ELSE setClients(Append(clients,
                          [client EXCEPT !.id = FreshId(ClientIds \cup NamedClientIds)]),
                       stored)
    /\ InvoicesPageMounted
    /\ alertMsg' = ""
    /\ done' = NoCall
    /\ UNCHANGED <<tz, workshop, currentPage, invoices, lsInvoices, lastSave, everDeleted>>

(* --------------------------- InvoicesPage ----------------------------- *)

\* lines 707-710, and the initial formData of lines 798-807; the dueDate of
\* line 802 is 30 * 24 hours after now
handleNewInvoice ==
    /\ currentPage = "invoices" /\ view = "list"
    /\ selectedInvoice' = 0
    /\ view' = "form"
    /\ formData' = [clientId |-> 0, issueDate |-> ToISODate(now),
                    dueDate |-> ToISODate(now + 30 * 24), items |-> <<BlankItem>>,
                    notes |-> <<>>, status |-> "Borrador",
                    lastMaintenanceDate |-> NoDate, nextMaintenanceDate |-> NoDate]
    /\ itemRefs' = <<0>>
    /\ alertMsg' = ""
    /\ done' = NoCall
    /\ UNCHANGED <<tz, console, workshop, currentPage, clients, invoices, lsClients, lsInvoices, lastSave, everDeleted>>

\* what useState(invoice) of line 798 keeps of the invoice
DraftOf(invoice) ==
    [clientId |-> invoice.clientId, issueDate |-> invoice.issueDate,
     dueDate |-> invoice.dueDate, items |-> invoice.items, notes |-> invoice.notes,
     status |-> invoice.status, lastMaintenanceDate |-> invoice.lastMaintenanceDate,
     nextMaintenanceDate |-> invoice.nextMaintenanceDate]

\* lines 712-715
handleEditInvoice(i) ==
    /\ currentPage = "invoices" /\ view = "list"
    /\ selectedInvoice' = invoices[i].id
    /\ view' = "form"
    /\ formData' = DraftOf(invoices[i])
    /\ itemRefs' = [k \in Indexes(invoices[i].items) |-> k]
    /\ alertMsg' = ""
    /\ done' = NoCall
    /\ UNCHANGED <<tz, console, workshop, currentPage, clients, invoices, lsClients, lsInvoices, lastSave, everDeleted>>

RECURSIVE InvoicesWithout(_, _)
\* prev.filter(inv => inv.id !== invoiceId)
InvoicesWithout(invs, invoiceId) ==
    IF invs = <<>> THEN <<>>
    ELSE (IF Head(invs).id # invoiceId THEN <<Head(invs)>> ELSE <<>>)
            \o InvoicesWithout(Tail(invs), invoiceId)

\* lines 717-721, the confirm() accepted
handleDeleteInvoice(invoiceId, stored) ==
    /\ currentPage = "invoices" /\ view = "list"
    /\ setInvoices(InvoicesWithout(invoices, invoiceId), stored)
    /\ InvoicesPageMounted
    /\ alertMsg' = ""
    /\ done' = NoCall
    /\ lastSave' = IF lastSave.id = invoiceId THEN NoSave ELSE lastSave
    /\ everDeleted' = (everDeleted \/ InvoicesWithout(invoices, invoiceId) # invoices)
    /\ UNCHANGED <<tz, workshop, currentPage, clients, lsClients>>

\* lines 733-736
handlePreviewInvoice(i) ==
    /\ currentPage = "invoices" /\ view = "list"
    /\ selectedInvoice' = invoices[i].id
    /\ view' = "preview"
    /\ alertMsg' = ""
    /\ done' = NoCall
    /\ UNCHANGED <<tz, console, workshop, currentPage, clients, invoices, lsClients, lsInvoices,
                   formData, itemRefs, lastSave, everDeleted>>

\* line 739 onCancel and line 745 onBack: setView('list')
backToList ==
    /\ currentPage = "invoices" /\ view \in {"form", "preview"}
    /\ view' = "list"
    /\ formData' = NoForm
    /\ itemRefs' = <<>>
    /\ alertMsg' = ""
    /\ done' = NoCall
    /\ UNCHANGED <<tz, console, workshop, currentPage, clients, invoices, lsClients, lsInvoices,
                   selectedInvoice, lastSave, everDeleted>>

(* --------------------------- InvoiceForm ------------------------------ *)

InForm == currentPage = "invoices" /\ view = "form"

FormStep ==
    /\ alertMsg' = ""
    /\ done' = NoCall
    /\ UNCHANGED <<tz, console, workshop, currentPage, clients, lsClients, lsInvoices, view,
                   selectedInvoice, lastSave, everDeleted>>

\* lines 810-812: one of the <option>s of line 900
handleClientChange(clientId) ==
    /\ InForm
    /\ formData' = [formData EXCEPT !.clientId = clientId]
    /\ FormStep
    /\ UNCHANGED <<invoices, itemRefs>>

\* lines 814-817, the inputs named issueDate, dueDate and notes
handleInputChange(name, value) ==
    /\ InForm
    /\ formData' = [formData EXCEPT ![name] = value]
    /\ FormStep
    /\ UNCHANGED <<invoices, itemRefs>>

\* the invoices in memory once an item object of the form is written to
InvoicesSharing(index, field, value) ==
    IF itemRefs[index] = 0 THEN invoices
    ELSE [invoices EXCEPT
            ![IndexOfInvoice(selectedInvoice)].items[itemRefs[index]][field] = value]

\* lines 819-827: the array is copied, the item object is not, so the write
\* lands in the object itself, which the invoice being edited may share
handleItemChange(index, field, value) ==
    /\ InForm
    /\ formData' = [formData EXCEPT !.items[index][field] = value]
    /\ invoices' = InvoicesSharing(index, field, value)
    /\ FormStep
    /\ UNCHANGED itemRefs

\* lines 829-831
handleAddItem ==
    /\ InForm
    /\ formData' = [formData EXCEPT !.items = Append(@, BlankItem)]
    /\ itemRefs' = Append(itemRefs, 0)
    /\ FormStep
    /\ UNCHANGED invoices

\* formData.items.filter((_, i) => i !== index)
WithoutIndex(s, index) == [i \in 1..(Len(s) - 1) |-> IF i < index THEN s[i] ELSE s[i + 1]]

\* lines 846-849
handleRemoveItem(index) ==
    /\ InForm
    /\ formData' = [formData EXCEPT !.items = WithoutIndex(@, index)]
    /\ itemRefs' = WithoutIndex(itemRefs, index)
    /\ FormStep
    /\ UNCHANGED invoices

\* the invoice prop of InvoiceForm: selectedInvoice, or null
InvoiceProp ==
    IF selectedInvoice # 0 THEN invoices[IndexOfInvoice(selectedInvoice)]
    ELSE [id |-> 0, invoiceNumber |-> NoNumber]

\* line 886 handing on the fields of a new invoice instead of the form's
SubmittedAsNew(data, client, off, invoice) ==
    [id |-> invoice.id, invoiceNumber |-> invoice.invoiceNumber]
        @@ [FinalData(data, client, off) EXCEPT !.status = "Borrador",
                                                !.lastMaintenanceDate = NoDate]

\* line 886: what handleSubmit hands to onSave
Submitted(data, client, off, invoice) ==
    [id |-> invoice.id, invoiceNumber |-> invoice.invoiceNumber]
        @@ FinalData(data, client, off)

\* lines 724-729 with the number computed on every save, edits included
SavedInvoicesRenumbered(invs, selected, invoice) ==
    IF selected # 0
    THEN [i \in Indexes(invs) |->
            IF invs[i].id = invoice.id
            THEN [invoice EXCEPT !.invoiceNumber = NewInvoiceNumber(invs)]
            ELSE invs[i]]
    ELSE Append(invs, [invoice EXCEPT !.id = FreshId(InvoiceIds),
                                      !.invoiceNumber = NewInvoiceNumber(invs)])

\* lines 724-729: the collection handleSaveInvoice sets
SavedInvoices(invs, selected, invoice) ==
    IF selected # 0
    THEN [i \in Indexes(invs) |-> IF invs[i].id = invoice.id THEN invoice ELSE invs[i]]
    ELSE Append(invs, [invoice EXCEPT !.id = FreshId(InvoiceIds),
                                      !.invoiceNumber = NewInvoiceNumber(invs)])

\* lines 851-857 falling back on the first client instead of returning
SubmitClientOrFirst(cs, data) ==
    IF FindClient(cs, data.clientId) = NoClient /\ cs # <<>> THEN cs[1]
    ELSE FindClient(cs, data.clientId)

\* lines 851-857: the client the form names, NoClient when none has its id
SubmitClient(cs, data) == FindClient(cs, data.clientId)

\* lines 851-887, and handleSaveInvoice (lines 723-731) through onSave
handleSubmit(stored) ==
    /\ InForm
    /\ LET client == SubmitClient(clients, formData)
           call   == [op |-> "handleSubmit", formData |-> formData,
                      invoice |-> selectedInvoice, client |-> client,
                      invoices |-> invoices, lsInvoices |-> lsInvoices,
                      lastSave |-> lastSave]
       IN  IF client = NoClient
           THEN /\ alertMsg' = "Por favor, seleccione un cliente."
                /\ done' = [call EXCEPT !.op = "handleSubmit: return"]
                /\ UNCHANGED <<tz, console, workshop, currentPage, clients, invoices, lsClients,
                               lsInvoices, view, selectedInvoice, formData, itemRefs,
                               lastSave, everDeleted>>
           ELSE /\ setInvoices(SavedInvoices(invoices, selectedInvoice,
                                  Submitted(formData, client, tz, InvoiceProp)),
                               stored)
                /\ InvoicesPageMounted
                /\ alertMsg' = ""
                /\ done' = call
                /\ lastSave' = [id |-> IF selectedInvoice # 0 THEN selectedInvoice
                                       ELSE FreshId(InvoiceIds),
                                client |-> client]
                /\ UNCHANGED <<tz, workshop, currentPage, clients, lsClients, everDeleted>>

(* ----------------------------- the clock ------------------------------ *)

\* date.getMonth() + 1 and date.getFullYear() in a browser whose offset is off
GetMonth(t, off) == CivilFromDays((t + off) \div 24).m
GetFullYear(t, off) == CivilFromDays((t + off) \div 24).y

\* the clock moves on to instant.  DashboardPage computes what it shows when
\* it is mounted (useMemo, lines 210 and 220), so the figures of a visit are
\* those of the instant it began, and the clock is moved between visits.
Tick(instant) ==
    /\ currentPage # "dashboard"
    /\ instant > now
    /\ now' = instant
    /\ alertMsg' = ""
    /\ done' = NoCall
    /\ UNCHANGED <<tz, console, currentPage, clients, invoices, lsClients, lsInvoices, view,
                   selectedInvoice, formData, itemRefs, lastSave, everDeleted,
                   inventory, services, expenses, lsInventory, lsServices,
                   lsExpenses, activeTab, serviceForm>>

(* --------------------------- DashboardPage ---------------------------- *)

\* lines 228-231 and 235-238: the month and year read from a date string are
\* those of now
InMonthOf(date, t, off) ==
    /\ GetMonth(NewDate(date), off) = GetMonth(t, off)
    /\ GetFullYear(NewDate(date), off) = GetFullYear(t, off)

RECURSIVE IncomeFrom(_, _, _, _, _)
IncomeFrom(invs, i, sum, t, off) ==
    IF i > Len(invs) THEN sum
    ELSE IncomeFrom(invs, i + 1,
            IF invs[i].status = "Pagada" /\ InMonthOf(invs[i].issueDate, t, off)
            THEN sum + ItemsTotal(invs[i].items) ELSE sum,
            t, off)

\* lines 225-231: monthlyData.income
Income(invs, t, off) == IncomeFrom(invs, 1, 0, t, off)

RECURSIVE ExpensesFrom(_, _, _, _, _)
ExpensesFrom(exps, i, sum, t, off) ==
    IF i > Len(exps) THEN sum
    ELSE ExpensesFrom(exps, i + 1,
            IF InMonthOf(exps[i].date, t, off) THEN sum + exps[i].amount ELSE sum,
            t, off)

\* lines 233-238: monthlyData.totalExpenses
TotalExpenses(exps, t, off) == ExpensesFrom(exps, 1, 0, t, off)

\* what DashboardPage shows of the month
income == Income(invoices, now, tz)
totalExpenses == TotalExpenses(expenses, now, tz)
\* line 243
monthlyProfit == income - totalExpenses

\* line 214 with both ends of the window left out
IsUpcomingWithin(inv, t) ==
    /\ inv.nextMaintenanceDate # NoDate
    /\ NewDate(inv.nextMaintenanceDate) < t + 15 * 24
    /\ NewDate(inv.nextMaintenanceDate) > t

\* line 214: the filter of the invoices whose maintenance is due
IsUpcoming(inv, t) ==
    /\ inv.nextMaintenanceDate # NoDate
    /\ NewDate(inv.nextMaintenanceDate) <= t + 15 * 24
    /\ NewDate(inv.nextMaintenanceDate) >= t

RECURSIVE EveryFrom(_, _, _, _, _)
\* lines 213-216 without the reduce of line 217
EveryFrom(invs, cs, i, unique, t) ==
    IF i > Len(invs) THEN unique
    ELSE LET c == FindClient(cs, invs[i].clientId)
         IN  EveryFrom(invs, cs, i + 1,
                IF IsUpcoming(invs[i], t) /\ c # NoClient
                THEN Append(unique, c) ELSE unique,
                t)

RECURSIVE UniqueFrom(_, _, _, _, _)
\* lines 213-217: filter, map to the client, filter the clients found, and
\* reduce to the clients not yet in the list
UniqueFrom(invs, cs, i, unique, t) ==
    IF i > Len(invs) THEN unique
    ELSE LET c == FindClient(cs, invs[i].clientId)
         IN  UniqueFrom(invs, cs, i + 1,
                IF IsUpcoming(invs[i], t) /\ c # NoClient
                      /\ ~\E u \in Indexes(unique) : unique[u].id = c.id
                THEN Append(unique, c) ELSE unique,
                t)

\* lines 210-218
UpcomingMaintenance(invs, cs, t) == UniqueFrom(invs, cs, 1, <<>>, t)

upcomingMaintenance == UpcomingMaintenance(invoices, clients, now)

DashboardShown == currentPage = "dashboard"

(* ---------------------------- ExpensesPage ---------------------------- *)

NoExpense == [id |-> 0, amount |-> 0, date |-> NoDate, category |-> ""]

ExpenseIds == {expenses[i].id : i \in Indexes(expenses)}

\* lines 28-36, setValue of 'expenses'; ExpensesPage then renders and sorts
\* the array in memory (line 681)
setExpenses(value, stored) ==
    /\ expenses' = SortedByDate(value)
    /\ lsExpenses' = IF stored THEN value ELSE lsExpenses
    /\ console' = IF stored THEN console ELSE console \cup {<<"setValue", "expenses">>}

ExpensesStep ==
    /\ currentPage = "expenses"
    /\ InvoicesPageMounted /\ InventoryPageMounted
    /\ alertMsg' = ""
    /\ done' = NoCall
    /\ UNCHANGED <<tz, currentPage, clients, invoices, lsClients, lsInvoices,
                   lastSave, everDeleted, now, inventory, services, lsInventory,
                   lsServices>>

RECURSIVE ExpensesWithout(_, _)
\* prev.filter(e => e.id !== expenseId)
ExpensesWithout(exps, expenseId) ==
    IF exps = <<>> THEN <<>>
    ELSE (IF Head(exps).id # expenseId THEN <<Head(exps)>> ELSE <<>>)
            \o ExpensesWithout(Tail(exps), expenseId)

\* lines 648-652, the confirm() accepted
handleDeleteExpense(expenseId, stored) ==
    /\ setExpenses(ExpensesWithout(expenses, expenseId), stored)
    /\ ExpensesStep

\* lines 654-661, with the expense ExpenseForm hands over (line 162)
handleSaveExpense(editingExpense, expense, stored) ==
    /\ IF editingExpense # NoExpense
       THEN setExpenses([i \in Indexes(expenses) |->
                            IF expenses[i].id = expense.id THEN expense ELSE expenses[i]],
                        stored)
       ELSE setExpenses(Append(expenses, [expense EXCEPT !.id = FreshId(ExpenseIds)]),
                        stored)
    /\ ExpensesStep

(* ---------------------------- InventoryPage --------------------------- *)

NoInventoryItem == [id |-> 0, unitPrice |-> 0]

InventoryIds == {inventory[i].id : i \in Indexes(inventory)}
ServiceIds == {services[i].id : i \in Indexes(services)}

\* ids of articles that lines of services, stored or drafted, still name
NamedInventoryIds ==
    UNION {{services[i].items[k].inventoryItemId : k \in Indexes(services[i].items)} :
              i \in Indexes(services)}
      \cup UNION {{lsServices[i].items[k].inventoryItemId : k \in Indexes(lsServices[i].items)} :
                     i \in Indexes(lsServices)}
      \cup {serviceForm.items[k].inventoryItemId : k \in Indexes(serviceForm.items)}

\* lines 28-36, setValue of 'inventory'
setInventory(value, stored) ==
    /\ inventory' = value
    /\ lsInventory' = IF stored THEN value ELSE lsInventory
    /\ console' = IF stored THEN console ELSE console \cup {<<"setValue", "inventory">>}

\* lines 28-36, setValue of 'services'
setServices(value, stored) ==
    /\ services' = value
    /\ lsServices' = IF stored THEN value ELSE lsServices
    /\ console' = IF stored THEN console ELSE console \cup {<<"setValue", "services">>}

\* line 385: one of the two tabs; the manager of the other tab is unmounted
setActiveTab(tab) ==
    /\ currentPage = "inventory"
    /\ tab # activeTab
    /\ activeTab' = tab
    /\ serviceForm' = NoServiceForm
    /\ alertMsg' = ""
    /\ done' = NoCall
    /\ UNCHANGED <<tz, console, currentPage, clients, invoices, lsClients, lsInvoices, view,
                   selectedInvoice, formData, itemRefs, lastSave, everDeleted, now,
                   inventory, services, expenses, lsInventory, lsServices, lsExpenses>>

\* a handler of InventoryItemsManager has set the inventory: App renders again
InventoryStep ==
    /\ currentPage = "inventory" /\ activeTab = "items"
    /\ InvoicesPageMounted /\ InventoryPageMounted
    /\ alertMsg' = ""
    /\ done' = NoCall
    /\ UNCHANGED <<tz, currentPage, clients, invoices, lsClients, lsInvoices,
                   lastSave, everDeleted, now, services, expenses, lsServices,
                   lsExpenses>>

RECURSIVE InventoryWithout(_, _)
\* prev.filter(item => item.id !== itemId)
InventoryWithout(inv, itemId) ==
    IF inv = <<>> THEN <<>>
    ELSE (IF Head(inv).id # itemId THEN <<Head(inv)>> ELSE <<>>)
            \o InventoryWithout(Tail(inv), itemId)

\* lines 420-424, the confirm() accepted
handleDeleteItem(itemId, stored) ==
    /\ setInventory(InventoryWithout(inventory, itemId), stored)
    /\ InventoryStep

\* lines 426-433
handleSaveItem(editingItem, item, stored) ==
    /\ IF editingItem # NoInventoryItem
       THEN setInventory([i \in Indexes(inventory) |->
                             IF inventory[i].id = item.id THEN item ELSE inventory[i]],
                         stored)
       ELSE setInventory(Append(inventory,
                            [item EXCEPT !.id = FreshId(InventoryIds \cup NamedInventoryIds)]),
                         stored)
    /\ InventoryStep

(* --------------------------- ServicesManager -------------------------- *)

InServices == currentPage = "inventory" /\ activeTab = "services"

\* a step of ServicesManager or ServiceForm that sets no collection
ServiceFormStep ==
    /\ alertMsg' = ""
    /\ UNCHANGED <<tz, console, currentPage, clients, invoices, lsClients, lsInvoices, view,
                   selectedInvoice, formData, itemRefs, lastSave, everDeleted, now,
                   inventory, services, expenses, lsInventory, lsServices, lsExpenses,
                   activeTab>>

\* line 502, and the initial formData of line 521
ServicesManager_handleAddService ==
    /\ InServices /\ ~serviceForm.open
    /\ serviceForm' = [service |-> 0, items |-> <<>>, laborCost |-> 0, open |-> TRUE]
    /\ done' = NoCall
    /\ ServiceFormStep

\* line 503, and the initial formData of line 521
handleEditService(i) ==
    /\ InServices /\ ~serviceForm.open
    /\ serviceForm' = [service |-> services[i].id, items |-> services[i].items,
                       laborCost |-> services[i].laborCost, open |-> TRUE]
    /\ done' = NoCall
    /\ ServiceFormStep

\* line 592 onCancel and line 627 onClose: setIsModalOpen(false)
closeServiceForm ==
    /\ InServices /\ serviceForm.open
    /\ serviceForm' = NoServiceForm
    /\ done' = NoCall
    /\ ServiceFormStep

RECURSIVE ServicesWithout(_, _)
\* prev.filter(s => s.id !== serviceId)
ServicesWithout(svs, serviceId) ==
    IF svs = <<>> THEN <<>>
    ELSE (IF Head(svs).id # serviceId THEN <<Head(svs)>> ELSE <<>>)
            \o ServicesWithout(Tail(svs), serviceId)

\* a handler of ServicesManager has set the services: App renders again
ServicesStep ==
    /\ InvoicesPageMounted /\ InventoryPageMounted
    /\ alertMsg' = ""
    /\ UNCHANGED <<tz, currentPage, clients, invoices, lsClients, lsInvoices,
                   lastSave, everDeleted, now, inventory, expenses, lsInventory,
                   lsExpenses>>

\* lines 505-509, the confirm() accepted
handleDeleteService(serviceId, stored) ==
    /\ InServices /\ ~serviceForm.open
    /\ setServices(ServicesWithout(services, serviceId), stored)
    /\ done' = NoCall
    /\ ServicesStep

(* ----------------------------- ServiceForm ---------------------------- *)

HasLine(items, itemId) == \E k \in Indexes(items) : items[k].inventoryItemId = itemId

RECURSIVE LinesWithout(_, _)
\* formData.items.filter(i => i.inventoryItemId !== itemId)
LinesWithout(items, itemId) ==
    IF items = <<>> THEN <<>>
    ELSE (IF Head(items).inventoryItemId # itemId THEN <<Head(items)>> ELSE <<>>)
            \o LinesWithout(Tail(items), itemId)

\* lines 524-536 with a quantity of 0 stored like any other
ItemQuantityChangedFromZero(items, itemId, quantity) ==
    IF HasLine(items, itemId)
    THEN IF quantity >= 0
         THEN [k \in Indexes(items) |->
                 IF items[k].inventoryItemId = itemId
                 THEN [items[k] EXCEPT !.quantity = quantity] ELSE items[k]]
         ELSE LinesWithout(items, itemId)
    ELSE IF quantity >= 0
         THEN Append(items, [inventoryItemId |-> itemId, quantity |-> quantity])
         ELSE items

\* lines 524-536 with a line added whether or not the article has one
ItemQuantityChangedByAdding(items, itemId, quantity) ==
    IF quantity > 0
    THEN Append(items, [inventoryItemId |-> itemId, quantity |-> quantity])
    ELSE LinesWithout(items, itemId)

\* lines 524-537: newItems
ItemQuantityChanged(items, itemId, quantity) ==
    IF HasLine(items, itemId)
    THEN IF quantity > 0
         THEN [k \in Indexes(items) |->
                 IF items[k].inventoryItemId = itemId
                 THEN [items[k] EXCEPT !.quantity = quantity] ELSE items[k]]
         ELSE LinesWithout(items, itemId)
    ELSE IF quantity > 0
         THEN Append(items, [inventoryItemId |-> itemId, quantity |-> quantity])
         ELSE items

\* lines 523-538, from the input of line 573 of an article of the inventory
handleItemQuantityChange(itemId, quantity) ==
    /\ InServices /\ serviceForm.open
    /\ serviceForm' = [serviceForm EXCEPT
                          !.items = ItemQuantityChanged(@, itemId, quantity)]
    /\ done' = [op |-> "handleItemQuantityChange", itemId |-> itemId,
                quantity |-> quantity, items |-> serviceForm.items]
    /\ ServiceFormStep

\* line 583: the input of laborCost
laborCostChange(value) ==
    /\ InServices /\ serviceForm.open
    /\ serviceForm' = [serviceForm EXCEPT !.laborCost = value]
    /\ done' = NoCall
    /\ ServiceFormStep

\* inventory.find(i => i.id === id)
FindItemFrom(inv, id, i) ==
    IF \E k \in i..Len(inv) : inv[k].id = id
    THEN inv[CHOOSE k \in i..Len(inv) :
                inv[k].id = id /\ \A j \in i..(k - 1) : inv[j].id # id]
    ELSE NoInventoryItem

RECURSIVE MaterialsFrom(_, _, _, _)
MaterialsFrom(items, inv, k, total) ==
    IF k > Len(items) THEN total
    ELSE LET inventoryItem == FindItemFrom(inv, items[k].inventoryItemId, 1)
         IN  MaterialsFrom(items, inv, k + 1,
                total + (IF inventoryItem # NoInventoryItem
                         THEN inventoryItem.unitPrice * items[k].quantity ELSE 0))

\* lines 542-545: materialsCost
MaterialsCost(items, inv) == MaterialsFrom(items, inv, 1, 0)

\* line 546 with the labor left out
MaterialsOnly(data, inv) == MaterialsCost(data.items, inv)

\* line 546: totalPrice
TotalPrice(data, inv) == MaterialsCost(data.items, inv) + data.laborCost

\* line 547: what handleSubmit hands to onSave
SubmittedService(data, inv) ==
    [id |-> data.service, items |-> data.items, laborCost |-> data.laborCost,
     totalPrice |-> TotalPrice(data, inv)]

\* lines 511-518: the collection handleSaveService sets
SavedServices(svs, editingService, service) ==
    IF editingService # 0
    THEN [i \in Indexes(svs) |-> IF svs[i].id = service.id THEN service ELSE svs[i]]
    ELSE Append(svs, [service EXCEPT !.id = FreshId(ServiceIds)])

\* lines 540-548, and handleSaveService (lines 511-518) through onSave
ServiceForm_handleSubmit(stored) ==
    /\ InServices /\ serviceForm.open
    /\ setServices(SavedServices(services, serviceForm.service,
                                 SubmittedService(serviceForm, inventory)),
                   stored)
    /\ done' = [op |-> "ServiceForm.handleSubmit", formData |-> serviceForm,
                inventory |-> inventory, services |-> services,
                id |-> IF serviceForm.service # 0 THEN serviceForm.service
                       ELSE FreshId(ServiceIds)]
    /\ ServicesStep

(* ------------------------- next-state relations ----------------------- *)

\* the sidebar
PageSteps == \E page \in Pages : setCurrentPage(page)

\* ClientsPage, its collection held to MaxClients, its form fed the types given
ClientSteps(types, writes) ==
    \/ /\ Len(clients) < MaxClients
       /\ \E type \in types, stored \in writes :
             handleSaveClient(NoClient, [id |-> 0, type |-> type], stored)
    \/ \E i \in Indexes(clients), type \in types, stored \in writes :
          handleSaveClient(clients[i], [clients[i] EXCEPT !.type = type], stored)
    \/ \E i \in Indexes(clients), stored \in writes :
          handleDeleteClient(clients[i].id, stored)

\* InvoicesPage's list, its collection held to cap
ListSteps(cap) ==
    \/ Len(invoices) < cap /\ handleNewInvoice
    \/ \E i \in Indexes(invoices) : handleEditInvoice(i)
    \/ \E i \in Indexes(invoices) : handlePreviewInvoice(i)
    \/ backToList

\* the delete button of a row of InvoicesPage's list
DeleteSteps(writes) ==
    \E i \in Indexes(invoices), stored \in writes :
       handleDeleteInvoice(invoices[i].id, stored)

\* InvoiceForm's client, dates and notes, fed the inputs given
FieldSteps(inputs) ==
    \/ \E i \in Indexes(clients) : handleClientChange(clients[i].id)
    \/ \E name \in DOMAIN inputs : \E value \in inputs[name] :
          handleInputChange(name, value)

\* InvoiceForm's items, held to MaxItems and fed the item values given
ItemSteps(itemValues) ==
    \/ \E index \in Indexes(formData.items) : \E field \in DOMAIN itemValues :
          \E value \in itemValues[field] : handleItemChange(index, field, value)
    \/ Len(formData.items) < MaxItems /\ handleAddItem
    \/ \E index \in Indexes(formData.items) : handleRemoveItem(index)

SubmitSteps(writes) == \E stored \in writes : handleSubmit(stored)

(* ---- Spec: clients and invoices made, edited, saved and deleted ------- *)

Next ==
    \/ PageSteps
    \/ ClientSteps(ClientTypes, {TRUE})
    \/ ListSteps(MaxInvoices)
    \/ DeleteSteps({TRUE})
    \/ FieldSteps([notes |-> {<<UserText>>}])
    \/ SubmitSteps({TRUE})

Spec == InitIn(HomeOffsets) /\ [][Next]_vars

(* ---- SpecNotes: isNewEquipment ticked and unticked, notes typed ------- *)

\* what the user may leave in the notes textarea
NoteInputs == { <<>>, <<UserText>>, <<warrantyText, BlankLine, warrantyText>> }

NextNotes ==
    \/ PageSteps
    \/ ClientSteps(ClientTypes, {TRUE})
    \/ ListSteps(MaxDerived)
    \/ FieldSteps([notes |-> NoteInputs])
    \/ ItemSteps([isNewEquipment |-> BOOLEAN])
    \/ SubmitSteps({TRUE})

SpecNotes == InitIn(HomeOffsets) /\ [][NextNotes]_vars

(* ---- SpecMaintenance: isMaintenance ticked and unticked, dates set ---- *)

IssueDates == {Date(2024, 3, 1), Date(2023, 8, 31)}

NextMaintenanceSteps ==
    \/ PageSteps
    \/ ClientSteps(ClientTypes, {TRUE})
    \/ ListSteps(MaxDerived)
    \/ FieldSteps([issueDate |-> IssueDates])
    \/ ItemSteps([isMaintenance |-> BOOLEAN])
    \/ SubmitSteps({TRUE})

SpecMaintenance == InitIn(Offsets) /\ [][NextMaintenanceSteps]_vars

(* ---- SpecResave: a draft filled in, saved, and saved again as stored -- *)

NextResave ==
    \/ PageSteps
    \/ ClientSteps(ClientTypes, {TRUE})
    \/ ListSteps(MaxDerived)
    \/ selectedInvoice = 0 /\ FieldSteps([notes |-> NoteInputs, issueDate |-> IssueDates])
    \/ selectedInvoice = 0
          /\ ItemSteps([isNewEquipment |-> BOOLEAN, isMaintenance |-> BOOLEAN])
    \/ SubmitSteps({TRUE})

SpecResave == InitIn(HomeOffsets) /\ [][NextResave]_vars

(* ---- SpecTotals: quantities and prices typed -------------------------- *)

Quantities == {-2, 0}
UnitPrices == {-3}

NextTotals ==
    \/ PageSteps
    \/ ClientSteps({"Residencial"}, {TRUE})
    \/ ListSteps(MaxDerived)
    \/ FieldSteps([issueDate |-> {Today}])
    \/ ItemSteps([quantity |-> Quantities, unitPrice |-> UnitPrices])
    \/ SubmitSteps({TRUE})

SpecTotals == InitIn(HomeOffsets) /\ [][NextTotals]_vars

(* ---- SpecIncome: the dashboard of a store of invoices of every status - *)

\* a start from a store that holds clients and invoices (lines 18-26)
InitStored(offsets, instants, storedClients, storedInvoices) ==
    /\ tz \in offsets
    /\ now \in instants
    /\ currentPage = "dashboard"
    /\ clients \in storedClients /\ lsClients = clients
    /\ invoices \in storedInvoices /\ lsInvoices = invoices
    /\ view = "list"
    /\ selectedInvoice = 0
    /\ formData = NoForm
    /\ itemRefs = <<>>
    /\ alertMsg = ""
    /\ done = NoCall
    /\ lastSave = NoSave
    /\ everDeleted = FALSE
    /\ inventory = <<>> /\ lsInventory = <<>>
    /\ console = {}
    /\ services = <<>> /\ lsServices = <<>>
    /\ expenses = <<>> /\ lsExpenses = <<>>
    /\ activeTab = "items"
    /\ serviceForm = NoServiceForm

\* an invoice as the store holds it, the i-th of its collection
StoredInvoice(i, clientId, status, issueDate, items, next) ==
    [id |-> i, invoiceNumber |-> [prefix |-> "INV-", digits |-> PadStart(ToDigits(i), 4, 0)],
     clientId |-> clientId, issueDate |-> issueDate,
     dueDate |-> ToISODate(NewDate(issueDate) + 30 * 24), items |-> items,
     notes |-> <<>>, status |-> status, lastMaintenanceDate |-> NoDate,
     nextMaintenanceDate |-> next]

\* the sequences of at most n elements of S
SeqsUpTo(S, n) == UNION {[1..k -> S] : k \in 0..n}

Statuses == {"Borrador", "Enviada", "Pagada", "Vencida"}

\* the first of a month, a day within it, the day before it, and the day of
\* the year before
MonthDates == {Date(2024, 9, 1), Date(2024, 9, 15), Date(2024, 8, 31), Date(2023, 9, 15)}

\* noon UTC of 31 August and of 15 September 2024
MonthInstants == {SessionStart, NewDate(Date(2024, 9, 15)) + 12}

StoredItems == { <<Item(1, 100, FALSE, FALSE)>>,
                 <<Item(2, 25, FALSE, FALSE), Item(1, -5, FALSE, FALSE)>> }

OneClient == { <<[id |-> 1, type |-> "Residencial"]>> }

\* stores of at most MaxStored invoices of client 1
InvoicesOfMonth ==
    { [i \in Indexes(k) |->
          StoredInvoice(i, 1, k[i].status, k[i].issueDate, k[i].items, NoDate)] :
      k \in SeqsUpTo([status : Statuses, issueDate : MonthDates, items : StoredItems],
                     MaxStored) }

\* the sidebar, with the pages of the inventory and of the expenses
AllPageSteps == \E page \in AllPages : setCurrentPage(page)

ClockSteps(instants) == \E instant \in instants : Tick(instant)

NextIncome ==
    \/ AllPageSteps
    \/ ClockSteps(MonthInstants)
    \/ DeleteSteps({TRUE})

SpecIncome ==
    InitStored(Offsets, {SessionStart}, OneClient, InvoicesOfMonth) /\ [][NextIncome]_vars

(* ---- SpecExpenses: expenses entered, the dashboard of the month ------- *)

ExpenseAmounts == {40, 150}
ExpenseCategories == {"Materiales", "Otro"}

\* ExpensesPage, its collection held to MaxExpenses
ExpenseSteps(amounts, dates, categories, writes) ==
    \/ /\ Len(expenses) < MaxExpenses
       /\ \E amount \in amounts, date \in dates, category \in categories, stored \in writes :
             handleSaveExpense(NoExpense,
                [id |-> 0, amount |-> amount, date |-> date, category |-> category],
                stored)
    \/ \E i \in Indexes(expenses), amount \in amounts, stored \in writes :
          handleSaveExpense(expenses[i], [expenses[i] EXCEPT !.amount = amount], stored)
    \/ \E i \in Indexes(expenses), stored \in writes :
          handleDeleteExpense(expenses[i].id, stored)

\* an empty store, and one with an invoice paid in September 2024
PaidOrNone ==
    { <<>>,
      <<StoredInvoice(1, 1, "Pagada", Date(2024, 9, 15), <<Item(1, 100, FALSE, FALSE)>>, NoDate)>> }

NextExpenses ==
    \/ AllPageSteps
    \/ ClockSteps(MonthInstants)
    \/ ExpenseSteps(ExpenseAmounts, MonthDates, ExpenseCategories, {TRUE})

SpecExpenses ==
    InitStored(Offsets, {SessionStart}, OneClient, PaidOrNone) /\ [][NextExpenses]_vars

(* ---- SpecUpcoming: the dashboard of a store with maintenance dates --- *)

TwoClients == { <<[id |-> 1, type |-> "Residencial"], [id |-> 2, type |-> "Comercial"]>> }

\* midnight UTC of 1 September 2024, and an hour later
UpcomingInstants == {NewDate(Date(2024, 9, 1)), NewDate(Date(2024, 9, 1)) + 1}

\* none, the day before, the day itself, the 15th day after, and the 16th
MaintenanceDates ==
    {NoDate, Date(2024, 8, 31), Date(2024, 9, 1), Date(2024, 9, 16), Date(2024, 9, 17)}

\* stores of at most MaxUpcoming invoices of clients 1 and 2 and of a client
\* 3 that is in the collection no more
InvoicesWithMaintenance ==
    { [i \in Indexes(k) |->
          StoredInvoice(i, k[i].clientId, "Borrador", Date(2024, 3, 1),
                        <<Item(1, 100, TRUE, FALSE)>>, k[i].next)] :
      k \in SeqsUpTo([clientId : {1, 2, 3}, next : MaintenanceDates], MaxUpcoming) }

NextUpcoming ==
    \/ AllPageSteps
    \/ ClockSteps(UpcomingInstants)
    \/ \E i \in Indexes(clients) : handleDeleteClient(clients[i].id, TRUE)

SpecUpcoming ==
    /\ InitStored(HomeOffsets, {NewDate(Date(2024, 9, 1))}, TwoClients, InvoicesWithMaintenance)
    /\ [][NextUpcoming]_vars

(* ---- SpecServices: articles priced, services composed and saved ------ *)

InventoryPrices == {10, 5}
LineQuantities == {-1, 0, 1, 2}
LaborCosts == {20}

\* InventoryItemsManager, its collection and the ids it gives out held to
\* MaxInventory
InventorySteps(prices, writes) ==
    \/ /\ Len(inventory) < MaxInventory
       /\ FreshId(InventoryIds \cup NamedInventoryIds) <= MaxInventory
       /\ \E price \in prices, stored \in writes :
             handleSaveItem(NoInventoryItem, [id |-> 0, unitPrice |-> price], stored)
    \/ \E i \in Indexes(inventory), price \in prices, stored \in writes :
          handleSaveItem(inventory[i], [inventory[i] EXCEPT !.unitPrice = price], stored)
    \/ \E i \in Indexes(inventory), stored \in writes :
          handleDeleteItem(inventory[i].id, stored)

\* ServicesManager and ServiceForm, the collection held to MaxServices
ServiceSteps(quantities, costs, writes) ==
    \/ \E tab \in {"items", "services"} : setActiveTab(tab)
    \/ Len(services) < MaxServices /\ ServicesManager_handleAddService
    \/ \E i \in Indexes(services) : handleEditService(i)
    \/ closeServiceForm
    \/ \E i \in Indexes(inventory), quantity \in quantities :
          handleItemQuantityChange(inventory[i].id, quantity)
    \/ \E value \in costs : laborCostChange(value)
    \/ \E stored \in writes : ServiceForm_handleSubmit(stored)
    \/ \E i \in Indexes(services), stored \in writes :
          handleDeleteService(services[i].id, stored)

NextServices ==
    \/ \E page \in {"dashboard", "inventory"} : setCurrentPage(page)
    \/ InventorySteps(InventoryPrices, {TRUE})
    \/ ServiceSteps(LineQuantities, LaborCosts, {TRUE})

SpecServices == InitIn(HomeOffsets) /\ [][NextServices]_vars

(* ---- SpecLoad: the store damaged, the page loaded anew ---------------- *)

\* expenses of two dates entered, the texts of two keys damaged
NextLoad ==
    \/ AllPageSteps
    \/ ClientSteps({"Residencial"}, {TRUE})
    \/ ExpenseSteps({40}, {Date(2024, 8, 31), Date(2024, 9, 15)}, {"Otro"}, {TRUE})
    \/ AppMounted
    \/ \E key \in {"clients", "expenses"}, kind \in TextKinds : StoreDamaged(key, kind)

SpecLoad == InitIn(HomeOffsets) /\ [][NextLoad]_vars

(* ---- SpecFaulty: the store rejects writes, the page is loaded anew ---- *)

NextFaulty ==
    \/ PageSteps
    \/ ClientSteps({"Residencial"}, WriteOutcomes)
    \/ ListSteps(MaxDerived)
    \/ DeleteSteps(WriteOutcomes)
    \/ FieldSteps([notes |-> {<<UserText>>}])
    \/ SubmitSteps(WriteOutcomes)
    \/ AppMounted

SpecFaulty == InitIn(HomeOffsets) /\ [][NextFaulty]_vars

(* ---- SpecFrame: stored invoices of every status edited and saved ------ *)

\* an empty store, and stores of one invoice of client 1, paid or overdue,
\* with or without a lastMaintenanceDate
FramedInvoices ==
    { <<>> } \cup
    { <<[StoredInvoice(1, 1, status, Date(2024, 3, 1), <<Item(1, 100, FALSE, FALSE)>>,
                       NoDate)
           EXCEPT !.lastMaintenanceDate = last]>> :
      status \in {"Pagada", "Vencida"}, last \in {NoDate, Date(2023, 9, 1)} }

NextFrame ==
    \/ PageSteps
    \/ ListSteps(MaxDerived)
    \/ FieldSteps([dueDate |-> {Date(2024, 10, 15)}])
    \/ ItemSteps([isMaintenance |-> BOOLEAN, isNewEquipment |-> BOOLEAN])
    \/ SubmitSteps({TRUE})

SpecFrame ==
    InitStored(HomeOffsets, {SessionStart}, OneClient, FramedInvoices) /\ [][NextFrame]_vars

(* ------------------------- what the pages show ------------------------ *)

\* line 889: InvoiceForm's subtotal
subtotal == ItemsTotal(formData.items)
\* line 963: the form's "Total:" is the subtotal again
FormTotal == subtotal
\* line 769: the total of a row of InvoicesPage's list
ListTotal(invoice) == ItemsTotal(invoice.items)
\* line 997: InvoicePreview's total
PreviewTotal(invoice) == ItemsTotal(invoice.items)
\* lines 742-745: the preview is rendered for a selected invoice whose client exists
PreviewShown ==
    /\ currentPage = "invoices" /\ view = "preview" /\ selectedInvoice # 0
    /\ FindClient(clients, invoices[IndexOfInvoice(selectedInvoice)].clientId) # NoClient

(* ============================== claims ================================ *)

\* the sum of quantity * unitPrice over a list of items, last item first
RECURSIVE SumOfProducts(_)
SumOfProducts(items) ==
    IF items = <<>> THEN 0
    ELSE SumOfProducts(SubSeq(items, 1, Len(items) - 1))
            + items[Len(items)].quantity * items[Len(items)].unitPrice

\* C1: the total shown by the invoice form, by each row of the invoice list
\* and by the invoice preview is the sum over the items of quantity *
\* unitPrice, zero and negative quantities and prices included, and the
\* form's total is its subtotal.
C1_TotalsAreSums ==
    /\ InForm => subtotal = SumOfProducts(formData.items) /\ FormTotal = subtotal
    /\ \A i \in Indexes(invoices) :
          ListTotal(invoices[i]) = SumOfProducts(invoices[i].items)
    /\ PreviewShown =>
          PreviewTotal(invoices[IndexOfInvoice(selectedInvoice)])
             = SumOfProducts(invoices[IndexOfInvoice(selectedInvoice)].items)

\* C1's case: a form of two items, one of negative quantity and negative price,
\* one of quantity zero, opened on a stored invoice whose total is negative
C1_Witness ==
    /\ InForm /\ Len(formData.items) = 2
    /\ formData.items[1].quantity < 0 /\ formData.items[1].unitPrice < 0
    /\ formData.items[2].quantity = 0
    /\ subtotal = 6
    /\ \E i \in Indexes(invoices) : ListTotal(invoices[i]) < 0

(* ---- the save that has just run, as recorded in done ------------------ *)

\* handleSubmit has just run and reached onSave
Saving == done.op = "handleSubmit"
\* handleSubmit has just run and returned at line 856
Refused == done.op = "handleSubmit: return"
\* the save was of an invoice being edited, not of a new one
Editing == done.invoice # 0

\* the invoice the save wrote, as the collection now holds it
Written ==
    IF Editing THEN invoices[IndexOfInvoice(done.invoice)]
    ELSE invoices[Len(invoices)]

\* the invoice being edited, as the collection held it before the save
Prior ==
    done.invoices[CHOOSE i \in Indexes(done.invoices) :
                     done.invoices[i].id = done.invoice]

NoItemIs(items, flag) == \A i \in Indexes(items) : items[i][flag] = FALSE

(* ---- the calendar, for C2 --------------------------------------------- *)

IsLeap(y) == (y % 4 = 0 /\ y % 100 # 0) \/ y % 400 = 0

DaysIn(y, m) ==
    IF m = 2 THEN (IF IsLeap(y) THEN 29 ELSE 28)
    ELSE IF m \in {4, 6, 9, 11} THEN 30 ELSE 31

\* a date with k added to its month field: the year carries, and a day the
\* month does not have runs over into the month after
MonthFieldPlus(date, k) ==
    LET m0 == (date.m - 1) + k
        yy == date.y + m0 \div 12
        mm == (m0 % 12) + 1
    IN  IF date.d <= DaysIn(yy, mm) THEN Date(yy, mm, date.d)
        ELSE Date(IF mm = 12 THEN yy + 1 ELSE yy, (mm % 12) + 1,
                  date.d - DaysIn(yy, mm))

\* C2: a save of an invoice with an item whose isMaintenance is true sets
\* nextMaintenanceDate to the issue date with 6 added to its month field,
\* for a client of either type and whatever date the invoice held before.
C2_SixMonthsAfterIssue ==
    (Saving /\ ~NoItemIs(done.formData.items, "isMaintenance"))
        => Written.nextMaintenanceDate = MonthFieldPlus(done.formData.issueDate, 6)

\* C3: an invoice that held a nextMaintenanceDate, edited so that no item has
\* isMaintenance and saved, is in the collection without nextMaintenanceDate.
C3_ClearedOnSave ==
    (Saving /\ Editing /\ Prior.nextMaintenanceDate # NoDate
            /\ NoItemIs(done.formData.items, "isMaintenance"))
        => Written.nextMaintenanceDate = NoDate

\* C3's case: such a save has just run, on an invoice that keeps an item
C3_Witness ==
    /\ Saving /\ Editing /\ Prior.nextMaintenanceDate # NoDate
    /\ done.formData.items # <<>>
    /\ NoItemIs(done.formData.items, "isMaintenance")
    /\ Written.nextMaintenanceDate = NoDate

(* ---- the notes, for C4 to C7 ------------------------------------------ *)

RECURSIVE Count(_, _)
\* how many paragraphs of notes are text
Count(notes, text) ==
    IF notes = <<>> THEN 0
    ELSE (IF Head(notes) = text THEN 1 ELSE 0) + Count(Tail(notes), text)

\* how many paragraphs of notes are a recommendation, of either interval
Recommendations(notes) ==
    Cardinality({i \in Indexes(notes) : notes[i].kind = "Recomendacion"})

IsPrefix(s, t) == Len(s) <= Len(t) /\ SubSeq(t, 1, Len(s)) = s

Max(a, b) == IF a >= b THEN a ELSE b

\* the interval the recommendation names for a client of the type
IntervalFor(type) == CASE type = "Comercial" -> 3 [] type = "Residencial" -> 6

\* the save that has just run is of the invoice as the save before it left
\* it, nothing edited, and for the client that save was for
Resave ==
    /\ Saving /\ Editing
    /\ done.lastSave.id = done.invoice
    /\ done.lastSave.client = done.client
    /\ done.formData = DraftOf(Prior)

\* C4 as stated: a second save of the stored result, for the same client,
\* leaves notes and nextMaintenanceDate as the first save set them, and after
\* any save of an invoice with an isNewEquipment item the warranty sentence
\* is in notes exactly once.
C4_ExactlyOnce ==
    /\ Resave => /\ Written.notes = Prior.notes
                 /\ Written.nextMaintenanceDate = Prior.nextMaintenanceDate
    /\ (Saving /\ ~NoItemIs(done.formData.items, "isNewEquipment"))
          => Count(Written.notes, warrantyText) = 1

\* C4 as amended: a second save of the stored result, for the same client,
\* leaves notes and nextMaintenanceDate as the first save set them, and a
\* save of an invoice with an isNewEquipment item never adds a second copy of
\* the warranty sentence: notes hold it once when the notes given to the save
\* held it at most once, and as often as those held it otherwise.
C4_NoSecondCopy ==
    /\ Resave => /\ Written.notes = Prior.notes
                 /\ Written.nextMaintenanceDate = Prior.nextMaintenanceDate
    /\ (Saving /\ ~NoItemIs(done.formData.items, "isNewEquipment"))
          => Count(Written.notes, warrantyText)
                = Max(1, Count(done.formData.notes, warrantyText))

\* C4's case: the second save of an invoice with a new-equipment item and a
\* maintenance item, whose notes began as the user's text
C4_Witness ==
    /\ Resave
    /\ ~NoItemIs(done.formData.items, "isNewEquipment")
    /\ ~NoItemIs(done.formData.items, "isMaintenance")
    /\ Head(Written.notes) = UserText
    /\ Count(Written.notes, warrantyText) = 1
    /\ Written.nextMaintenanceDate # NoDate

\* C5: a save of an invoice with an isNewEquipment item leaves in notes the
\* recommendation of 3 months for a Comercial client and of 6 months for a
\* Residencial one; a save without such an item adds no recommendation.
C5_IntervalByClientType ==
    Saving =>
        IF NoItemIs(done.formData.items, "isNewEquipment")
        THEN Recommendations(Written.notes) = Recommendations(done.formData.notes)
        ELSE Includes(Written.notes, maintenanceText(IntervalFor(done.client.type)))

\* C5's case: a save for a Comercial client that added the 3 months sentence
C5_Witness ==
    /\ Saving /\ done.client.type = "Comercial"
    /\ ~NoItemIs(done.formData.items, "isNewEquipment")
    /\ Recommendations(done.formData.notes) = 0
    /\ Count(Written.notes, maintenanceText(3)) = 1
    /\ Count(Written.notes, maintenanceText(6)) = 0

\* C6: when the notes of an invoice with an isNewEquipment item hold neither
\* fixed sentence, the saved notes are the notes given, a blank line if those
\* are not empty, the warranty sentence, a blank line, and the recommendation.
C6_WarrantyThenRecommendation ==
    (Saving /\ ~NoItemIs(done.formData.items, "isNewEquipment")
            /\ Count(done.formData.notes, warrantyText) = 0
            /\ Recommendations(done.formData.notes) = 0)
        => Written.notes =
              done.formData.notes
                 \o (IF done.formData.notes # <<>> THEN <<BlankLine>> ELSE <<>>)
                 \o <<warrantyText, BlankLine,
                      maintenanceText(IntervalFor(done.client.type))>>

\* C6's case: such a save, of notes that held the user's text only
C6_Witness ==
    /\ Saving /\ ~NoItemIs(done.formData.items, "isNewEquipment")
    /\ done.formData.notes = <<UserText>>
    /\ Len(Written.notes) = 5

\* C7: a save removes nothing from notes: the notes given are a prefix of
\* the notes saved, and they are the notes saved when no item has
\* isNewEquipment, whatever fixed sentences they hold.
C7_NotesOnlyGrow ==
    Saving =>
        /\ IsPrefix(done.formData.notes, Written.notes)
        /\ NoItemIs(done.formData.items, "isNewEquipment")
              => Written.notes = done.formData.notes

\* C7's case: an invoice whose notes got both sentences from an earlier save
\* is saved with no isNewEquipment item left, and keeps them
C7_Witness ==
    /\ Saving /\ Editing
    /\ NoItemIs(done.formData.items, "isNewEquipment")
    /\ done.formData.items # <<>>
    /\ Count(Written.notes, warrantyText) = 1
    /\ Recommendations(Written.notes) = 1

(* ---- the client of a save, for C8 ------------------------------------- *)

\* no client of the collection has the id the submitted form named
Unresolved == \A i \in Indexes(clients) : clients[i].id # done.formData.clientId

\* C8: when the form's clientId names no client, handleSubmit saves nothing:
\* the invoices in memory and in the store are as before, the form stays
\* open and a message is raised; so every invoice a save writes names a
\* client of the collection.
C8_NoSaveWithoutClient ==
    /\ ((Saving \/ Refused) /\ Unresolved)
          => /\ invoices = done.invoices
             /\ lsInvoices = done.lsInvoices
             /\ lastSave = done.lastSave
             /\ InForm /\ formData = done.formData
             /\ alertMsg = "Por favor, seleccione un cliente."
    /\ Saving => \E i \in Indexes(clients) : clients[i].id = Written.clientId

\* C8's case: an invoice whose client was deleted is opened and submitted
C8_Witness ==
    /\ Refused /\ Editing /\ done.formData.clientId # 0
    /\ clients # <<>> /\ Unresolved

(* ---- invoice numbers, for C9 and C10 ---------------------------------- *)

\* C9: an invoice keeps the id and the invoiceNumber it has: a step that
\* removes no invoice leaves every invoice at its place with both, and a
\* step that removes one leaves the others with theirs.
C9_NumberKept ==
    [][ /\ \A k \in Indexes(invoices') : \A j \in Indexes(invoices) :
              invoices[j].id = invoices'[k].id
                 => invoices[j].invoiceNumber = invoices'[k].invoiceNumber
        /\ Len(invoices') >= Len(invoices)
              => \A j \in Indexes(invoices) :
                    /\ invoices'[j].id = invoices[j].id
                    /\ invoices'[j].invoiceNumber = invoices[j].invoiceNumber
        /\ Len(invoices') < Len(invoices)
              => \A k \in Indexes(invoices') : \E j \in Indexes(invoices) :
                    /\ invoices[j].id = invoices'[k].id
                    /\ invoices[j].invoiceNumber = invoices'[k].invoiceNumber
      ]_vars

\* C9's case: after a deletion and a creation, the first of two invoices has
\* been edited and saved with other notes
C9_Witness ==
    /\ Saving /\ Editing /\ everDeleted /\ Len(invoices) = 2
    /\ Written = invoices[1]
    /\ Written.notes # Prior.notes
    /\ Written.invoiceNumber = Prior.invoiceNumber

\* "INV-" and n in four digits, for n below 10000
FourDigits(n) ==
    [prefix |-> "INV-",
     digits |-> <<(n \div 1000) % 10, (n \div 100) % 10, (n \div 10) % 10, n % 10>>]

\* C10: a new invoice gets INV- and the size of the collection plus one, in
\* four digits; the first invoice of an empty collection is INV-0001, and
\* while no invoice has been deleted the k-th invoice is numbered k.
C10_NumberFromSize ==
    /\ (Saving /\ ~Editing)
          => /\ Written.invoiceNumber = FourDigits(Len(done.invoices) + 1)
             /\ done.invoices = <<>>
                   => Written.invoiceNumber.digits = <<0, 0, 0, 1>>
    /\ ~everDeleted
          => \A k \in Indexes(invoices) : invoices[k].invoiceNumber = FourDigits(k)

\* C10's case: a second invoice has just been created
C10_Witness ==
    /\ Saving /\ ~Editing /\ ~everDeleted
    /\ Len(done.invoices) = 1
    /\ Written.invoiceNumber.digits = <<0, 0, 0, 2>>

\* the invoice just created holds the number of an invoice that was there
NumberGivenTwice ==
    \E j \in 1..(Len(invoices) - 1) :
       invoices[j].invoiceNumber = invoices[Len(invoices)].invoiceNumber

\* C11: the number is taken from the size and not from the numbers in use:
\* whenever an invoice is created while some invoice holds the number
\* size + 1, as after the deletion of an invoice that was not the last, the
\* collection holds two invoices of that number.
C11_NumberCollides ==
    (Saving /\ ~Editing
        /\ \E j \in Indexes(done.invoices) :
              done.invoices[j].invoiceNumber = FourDigits(Len(done.invoices) + 1))
      => NumberGivenTwice

\* C11's case: two invoices were created, the first was deleted and another
\* created: both invoices are INV-0002
C11_Witness ==
    /\ Saving /\ ~Editing /\ everDeleted
    /\ Len(done.invoices) = 1
    /\ done.invoices[1].invoiceNumber.digits = <<0, 0, 0, 2>>
    /\ Len(invoices) = 2
    /\ invoices[1].invoiceNumber = invoices[2].invoiceNumber
    /\ invoices[1].id # invoices[2].id

(* ---- the dashboard, for C12 to C15 ------------------------------------ *)

\* the calendar date of now where the browser is
LocalToday == CivilFromDays((now + tz) \div 24)

\* the date is of the calendar month and year of now
ThisMonth(date) == date.m = LocalToday.m /\ date.y = LocalToday.y

RECURSIVE SumPaid(_)
\* the sum of the items of the invoices that are Pagada and of this month
SumPaid(invs) ==
    IF invs = <<>> THEN 0
    ELSE (IF Head(invs).status = "Pagada" /\ ThisMonth(Head(invs).issueDate)
          THEN SumOfProducts(Head(invs).items) ELSE 0)
            + SumPaid(Tail(invs))

RECURSIVE SumOfMonth(_)
\* the sum of the amounts of the expenses of this month
SumOfMonth(exps) ==
    IF exps = <<>> THEN 0
    ELSE (IF ThisMonth(Head(exps).date) THEN Head(exps).amount ELSE 0)
            + SumOfMonth(Tail(exps))

\* C13: the monthly expenses the dashboard shows are the sum of the amounts
\* of the expenses dated in the calendar month and year of now, of every
\* category, and the profit shown is the income less these expenses.
C13_ExpensesOfThisMonth ==
    DashboardShown =>
        /\ totalExpenses = SumOfMonth(expenses)
        /\ monthlyProfit = income - SumOfMonth(expenses)

\* the invoice's maintenance date is set and its instant, midnight UTC of the
\* date, is in the 15 days from now, both ends included
Due(inv) ==
    /\ inv.nextMaintenanceDate # NoDate
    /\ LET t == DaysFromCivil(inv.nextMaintenanceDate.y, inv.nextMaintenanceDate.m,
                              inv.nextMaintenanceDate.d) * 24
       IN  now <= t /\ t <= now + 15 * 24

\* the places in invoices of the due invoices that name the client
DueInvoicesOf(clientId) ==
    {k \in Indexes(invoices) : invoices[k].clientId = clientId /\ Due(invoices[k])}

\* C14: the upcoming-maintenance list holds clients of the collection, and a
\* client of the collection is in it exactly when some invoice names it and
\* is due within now and now + 15 days, both ends included.
C14_ListedWhenDue ==
    DashboardShown =>
        /\ \A u \in Indexes(upcomingMaintenance) :
              \E i \in Indexes(clients) : clients[i] = upcomingMaintenance[u]
        /\ \A i \in Indexes(clients) :
              (\E u \in Indexes(upcomingMaintenance) :
                  upcomingMaintenance[u].id = clients[i].id)
                <=> DueInvoicesOf(clients[i].id) # {}

\* C14's case: after the other client was deleted, a client is listed for an
\* invoice due at the very instant of now, while an invoice of a client that
\* is gone is due too, and an invoice of a client of the collection is past
C14_Witness ==
    /\ DashboardShown
    /\ Len(clients) = 1
    /\ Len(upcomingMaintenance) = 1
    /\ \E k \in Indexes(invoices) :
          /\ invoices[k].clientId = upcomingMaintenance[1].id
          /\ NewDate(invoices[k].nextMaintenanceDate) = now
    /\ \E k \in Indexes(invoices) : invoices[k].clientId \notin ClientIds /\ Due(invoices[k])
    /\ \E k \in Indexes(invoices) :
          /\ invoices[k].clientId \in ClientIds
          /\ invoices[k].nextMaintenanceDate = Date(2024, 8, 31)

\* the place of the first due invoice of the client
FirstDue(clientId) ==
    CHOOSE k \in DueInvoicesOf(clientId) : \A j \in DueInvoicesOf(clientId) : k <= j

\* C15: no client is in the upcoming-maintenance list twice, and the clients
\* are listed in the order of their first due invoices in the collection.
C15_OnceInInvoiceOrder ==
    DashboardShown =>
        \A u, v \in Indexes(upcomingMaintenance) :
           u < v => /\ upcomingMaintenance[u].id # upcomingMaintenance[v].id
                    /\ DueInvoicesOf(upcomingMaintenance[u].id) # {}
                    /\ DueInvoicesOf(upcomingMaintenance[v].id) # {}
                    /\ FirstDue(upcomingMaintenance[u].id)
                          < FirstDue(upcomingMaintenance[v].id)

\* C15's case: on a later visit, client 2 has two due invoices around one of
\* client 1, and is listed once, before client 1
C15_Witness ==
    /\ DashboardShown
    /\ now = NewDate(Date(2024, 9, 1)) + 1
    /\ Len(invoices) = 3
    /\ DueInvoicesOf(2) = {1, 3} /\ DueInvoicesOf(1) = {2}
    /\ Len(upcomingMaintenance) = 2
    /\ upcomingMaintenance[1].id = 2 /\ upcomingMaintenance[2].id = 1

(* ---- the deletion of a client, for C20 -------------------------------- *)

\* C20: the deletion of a client takes that client out of the collection,
\* the others staying in their order, and leaves the invoices as they were,
\* in memory and in the store: those of the client name a client no more.
C20_InvoicesOutliveClient ==
    [][ \A i \in Indexes(clients) :
           handleDeleteClient(clients[i].id, TRUE)
              => /\ Len(clients') = Len(clients) - 1
                 /\ \A j \in Indexes(clients') :
                       clients'[j] = IF j < i THEN clients[j] ELSE clients[j + 1]
                 /\ invoices' = invoices
                 /\ lsInvoices' = lsInvoices
                 /\ \A k \in Indexes(invoices') :
                       invoices[k].clientId = clients[i].id
                          => \A j \in Indexes(clients') :
                                clients'[j].id # invoices'[k].clientId
      ]_vars

\* C20's case: client 1 has been deleted, client 2 is there, and invoices of
\* both are
C20_Witness ==
    /\ currentPage = "clients"
    /\ ClientIds = {2} /\ lsClients = clients
    /\ \E k \in Indexes(invoices) : invoices[k].clientId = 1
    /\ \E k \in Indexes(invoices) : invoices[k].clientId = 2
    /\ lsInvoices = invoices

(* ---- services, for C16 to C19 ----------------------------------------- *)

\* the unit price of the article of the id, 0 when the inventory has none
PriceOf(inv, id) ==
    IF \E i \in Indexes(inv) : inv[i].id = id
    THEN inv[CHOOSE i \in Indexes(inv) : inv[i].id = id].unitPrice
    ELSE 0

RECURSIVE SumOfLines(_, _)
\* the sum over the lines of the price of the article times the quantity
SumOfLines(lines, inv) ==
    IF lines = <<>> THEN 0
    ELSE PriceOf(inv, Head(lines).inventoryItemId) * Head(lines).quantity
            + SumOfLines(Tail(lines), inv)

\* ServiceForm's handleSubmit has just run
ServiceSaved == done.op = "ServiceForm.handleSubmit"
\* the service it wrote
WrittenService == services[CHOOSE i \in Indexes(services) : services[i].id = done.id]

\* C16: a saved service has the lines and the labor cost of the form, and
\* its totalPrice is the sum over the lines of the unit price of the article
\* in the inventory times the quantity, a line of no article counting 0,
\* plus the labor cost.
C16_TotalOfMaterialsAndLabor ==
    ServiceSaved =>
        /\ WrittenService.items = done.formData.items
        /\ WrittenService.laborCost = done.formData.laborCost
        /\ WrittenService.totalPrice
              = SumOfLines(done.formData.items, inventory) + done.formData.laborCost

\* C16's case: a service with labor is saved with a line of an article of
\* the inventory and a line of an article that was deleted
C16_Witness ==
    /\ ServiceSaved
    /\ done.formData.laborCost = 20
    /\ \E k \in Indexes(done.formData.items) :
          done.formData.items[k].inventoryItemId \notin InventoryIds
    /\ \E k \in Indexes(done.formData.items) :
          done.formData.items[k].inventoryItemId \in InventoryIds
    /\ WrittenService.totalPrice > 20

\* handleItemQuantityChange has just run
QuantityChanged == done.op = "handleItemQuantityChange"

\* the lines of other articles than the one of the id, in their order
OtherLines(lines, id) == SelectSeq(lines, LAMBDA l : l.inventoryItemId # id)
\* the lines of the article of the id
LinesOf(lines, id) == SelectSeq(lines, LAMBDA l : l.inventoryItemId = id)

\* C17: handleItemQuantityChange(itemId, q) sets the quantity of the line of
\* itemId to q when there is one and q > 0, removes the line when q = 0,
\* appends a line {itemId, q} when there is none and q > 0, and changes
\* nothing when there is none and q = 0; the lines of other articles keep
\* their quantities, their order and their places among themselves.
C17_QuantityChange ==
    QuantityChanged =>
        LET before == done.items
            after  == serviceForm.items
            id     == done.itemId
            q      == done.quantity
        IN  /\ (LinesOf(before, id) # <<>> /\ q > 0)
                  => /\ Len(after) = Len(before)
                     /\ \A k \in Indexes(before) :
                           after[k] = IF before[k].inventoryItemId = id
                                      THEN [inventoryItemId |-> id, quantity |-> q]
                                      ELSE before[k]
            /\ (LinesOf(before, id) # <<>> /\ q = 0)
                  => /\ LinesOf(after, id) = <<>>
                     /\ Len(after) = Len(before) - Len(LinesOf(before, id))
            /\ (LinesOf(before, id) = <<>> /\ q > 0)
                  => after = before \o <<[inventoryItemId |-> id, quantity |-> q]>>
            /\ (LinesOf(before, id) = <<>> /\ q = 0) => after = before
            /\ OtherLines(after, id) = OtherLines(before, id)

\* C17's case: the first of two lines is removed by a quantity of 0
C17_Witness ==
    /\ QuantityChanged /\ done.quantity = 0
    /\ Len(done.items) = 2
    /\ done.items[1].inventoryItemId = done.itemId
    /\ serviceForm.items = <<done.items[2]>>

\* no line has a quantity of 0 or less, and no two lines are of one article
WellFormed(lines) ==
    /\ \A k \in Indexes(lines) : lines[k].quantity > 0
    /\ \A j, k \in Indexes(lines) :
          j # k => lines[j].inventoryItemId # lines[k].inventoryItemId

\* C18: the lines of the service form, and those of every service of the
\* collection, in memory and in the store, hold an article at most once and
\* only quantities above 0, whatever quantities were entered.
C18_OneLinePerArticle ==
    /\ WellFormed(serviceForm.items)
    /\ \A i \in Indexes(services) : WellFormed(services[i].items)
    /\ \A i \in Indexes(lsServices) : WellFormed(lsServices[i].items)

\* C18's case: a negative quantity has been entered for an article that had
\* a line, in the form of a stored service of two lines
C18_Witness ==
    /\ QuantityChanged /\ done.quantity < 0
    /\ LinesOf(done.items, done.itemId) # <<>>
    /\ serviceForm.service # 0
    /\ \E i \in Indexes(services) : Len(services[i].items) = 2

\* C19: the totalPrice of every service of the collection is the sum over
\* its lines of the unit price the inventory has now times the quantity,
\* plus its labor cost.
C19_PriceFollowsInventory ==
    \A i \in Indexes(services) :
       services[i].totalPrice
          = SumOfLines(services[i].items, inventory) + services[i].laborCost

(* ---- the collections under save and delete, for C21 ------------------- *)

IdsOf(collection) == {collection[i].id : i \in Indexes(collection)}

\* after is before with one element more, at the end, of an id before had not
AppendedOne(before, after) ==
    /\ Len(after) = Len(before) + 1
    /\ SubSeq(after, 1, Len(before)) = before
    /\ after[Len(after)].id \notin IdsOf(before)

\* after is before with one element replaced by one of the same id
ReplacedOne(before, after) ==
    /\ Len(after) = Len(before)
    /\ \E k \in Indexes(before) :
          /\ after[k].id = before[k].id
          /\ \A j \in Indexes(before) : j # k => after[j] = before[j]

\* after is before without the elements of one id, the rest in their order
RemovedOne(before, after) ==
    \E id \in IdsOf(before) : after = SelectSeq(before, LAMBDA e : e.id # id)

SavedOrDeleted(before, after) ==
    \/ after = before
    \/ AppendedOne(before, after)
    \/ ReplacedOne(before, after)
    \/ RemovedOne(before, after)

\* a step of a handler of the expenses page that sets the collection
ExpensesSet ==
    /\ currentPage = "expenses" /\ currentPage' = "expenses"
    /\ lsExpenses' # lsExpenses

\* C21: a save or a delete changes its collection, in memory and in the
\* store, in one of three ways only: an edit replaces the element of the id
\* and leaves the length, the order and the other elements; a creation
\* appends one element of a new id at the end; a delete removes the
\* elements of the id. Stated for clients, invoices, inventory, services
\* and expenses.
C21_SaveAndDeleteFrame ==
    [][ /\ SavedOrDeleted(clients, clients')
        /\ SavedOrDeleted(lsClients, lsClients')
        /\ SavedOrDeleted(invoices, invoices')
        /\ SavedOrDeleted(lsInvoices, lsInvoices')
        /\ SavedOrDeleted(inventory, inventory')
        /\ SavedOrDeleted(lsInventory, lsInventory')
        /\ SavedOrDeleted(services, services')
        /\ SavedOrDeleted(lsServices, lsServices')
        /\ ExpensesSet => /\ SavedOrDeleted(expenses, expenses')
                          /\ SavedOrDeleted(lsExpenses, lsExpenses') ]_vars

(* ---- the maintenance date by its fields, for C24 ---------------------- *)

\* the month and the year six month fields after those of a date
SixthMonth(date) == ((date.m - 1 + 6) % 12) + 1
YearOfSixth(date) == date.y + (date.m - 1 + 6) \div 12

\* C24: at every timezone offset, the nextMaintenanceDate a save writes for
\* an invoice with a maintenance item has the day of the month of the issue
\* date and its month plus 6, the year carried, when that month has the day;
\* when it has not, the date is in the month after, at the day number by
\* which the day exceeds the month's length.
C24_SameDaySixMonthsOn ==
    (Saving /\ hasMaintenance(done.formData.items))
        => LET issue == done.formData.issueDate
               next  == Written.nextMaintenanceDate
               mm    == SixthMonth(issue)
               yy    == YearOfSixth(issue)
           IN  /\ next # NoDate
               /\ issue.d <= DaysIn(yy, mm)
                     => (next.d = issue.d /\ next.m = mm /\ next.y = yy)
               /\ issue.d > DaysIn(yy, mm)
                     => /\ next.d = issue.d - DaysIn(yy, mm)
                        /\ next.m = (mm % 12) + 1
                        /\ next.y = (IF mm = 12 THEN yy + 1 ELSE yy)

(* ---- the form and the collection, for C26 to C28 ---------------------- *)

\* the form of an invoice of the collection is open
EditOpen == InForm /\ selectedInvoice # 0

\* C26: when the form of an invoice opened for editing is cancelled, after
\* any changes of the fields of its items, every invoice in memory is as it
\* was when the form was opened. No handler sets the collection while the
\* form is open, and every save before it was stored, so the store holds
\* the collection as it was at the opening.
C26_CancelLeavesInvoices ==
    [][ (EditOpen /\ backToList) => invoices' = lsInvoices ]_vars

\* C27: every invoice of the collection has a nextMaintenanceDate exactly
\* when one of its items has isMaintenance.
C27_DateIffMaintenanceItem ==
    \A i \in Indexes(invoices) :
       (invoices[i].nextMaintenanceDate # NoDate) <=> hasMaintenance(invoices[i].items)

\* C28: when an invoice with an isNewEquipment item is saved with the notes
\* the user left as they were (those of the stored invoice, or on the first
\* save notes with no recommendation), its notes hold one recommendation,
\* that of the type the client has at this save.
C28_OneRecommendation ==
    (/\ Saving
     /\ hasNewEquipment(done.formData.items)
     /\ Editing => done.formData.notes = Prior.notes
     /\ ~Editing => Recommendations(done.formData.notes) = 0)
        => /\ Recommendations(Written.notes) = 1
           /\ Includes(Written.notes,
                       maintenanceText(IntervalFor(done.client.type)))

(* ---- the load from the store, for C22 --------------------------------- *)

\* App has just been mounted
Mounted == done.op = "App"

\* the collections in memory, by their keys
InMemory ==
    [clients |-> clients, invoices |-> invoices, inventory |-> inventory,
     expenses |-> expenses, services |-> services]

Unreadable == {DamagedText(kind) : kind \in TextKinds}

\* C22: when App is mounted, a collection whose stored text is missing,
\* empty or not parseable starts as its default, the empty list, the others
\* start as their texts give them, and no exception leaves the hook: App is
\* rendered, on its first page.
C22_DefaultWhenUnreadable ==
    Mounted =>
        /\ ~done.thrown
        /\ currentPage = "dashboard"
        /\ \A key \in DOMAIN InMemory :
              InMemory[key] = IF done.texts[key] \in Unreadable THEN <<>>
                              ELSE done.texts[key]

\* C22's case: App is mounted with the text of clients garbled, which is
\* logged, and two expenses in the store, which are loaded
C22_Witness ==
    /\ Mounted
    /\ done.texts.clients = DamagedText("garbled")
    /\ clients = <<>>
    /\ <<"useState", "clients">> \in console
    /\ Len(expenses) = 2

(* ---- the store rejecting a write, for C23 and C29 --------------------- *)

\* a step of handleSubmit that saves and whose write the store rejects
RejectedSave == handleSubmit(FALSE) /\ done'.op = "handleSubmit"

\* a step of handleDeleteInvoice whose write the store rejects
RejectedDelete ==
    \E i \in Indexes(invoices) : handleDeleteInvoice(invoices[i].id, FALSE)

\* a step of a handler of ClientsPage whose write the store rejects
RejectedClientWrite ==
    \/ handleSaveClient(NoClient, [id |-> 0, type |-> "Residencial"], FALSE)
    \/ \E i \in Indexes(clients) :
          \/ handleSaveClient(clients[i], clients[i], FALSE)
          \/ handleDeleteClient(clients[i].id, FALSE)

\* C23: when the store rejects the write of a setValue, the error is logged
\* under the hook's key, and the handler runs to its end as it does when the
\* write is stored: the collection in memory is set (the invoice saved is in
\* it, the invoice deleted is not), the store keeps its text, the page
\* stays, and a save leaves the invoices page on its list, from where the
\* next operations start.
C23_RejectedWriteLogged ==
    [][ /\ (RejectedSave \/ RejectedDelete)
            => /\ <<"setValue", "invoices">> \in console'
               /\ lsInvoices' = lsInvoices
               /\ currentPage' = "invoices" /\ view' = "list"
        /\ RejectedSave => lastSave'.id \in IdsOf(invoices')
        /\ RejectedDelete => Len(invoices') < Len(invoices)
        /\ RejectedClientWrite
            => /\ <<"setValue", "clients">> \in console'
               /\ lsClients' = lsClients
               /\ currentPage' = "clients" ]_vars

\* C23's case: a save whose write was rejected and logged has set the
\* collection in memory and closed the form, and the invoice was then
\* opened and saved again, this time into the store
C23_Witness ==
    /\ <<"setValue", "invoices">> \in console
    /\ Saving /\ Editing
    /\ done.lsInvoices = <<>>
    /\ Len(done.invoices) = 1
    /\ lsInvoices = invoices
    /\ view = "list"

\* C29: after a save or a delete has set a collection, the store holds what
\* the memory holds, whether the store took the write or rejected it.
C29_StoreEqualsMemory ==
    [][ /\ (done'.op = "handleSubmit" \/ invoices' # invoices)
            => lsInvoices' = invoices'
        /\ clients' # clients => lsClients' = clients' ]_vars

(* ---- the pages displayed, for C30 ------------------------------------- *)

\* a page is displayed from the sidebar
Displayed == \E page \in AllPages : setCurrentPage(page)

\* C30: displaying a page changes no collection: each holds in memory the
\* elements it held, in their order, and one that equalled what its key has
\* in the store still does.
C30_DisplayChangesNothing ==
    [][ Displayed =>
           /\ InMemory' = InMemory
           /\ \A key \in DOMAIN InMemory :
                 InMemory[key] = StoredTexts[key]
                    => InMemory'[key] = StoredTexts'[key] ]_vars

(* ---- what a save leaves of the form, for C25 -------------------------- *)

\* the fields handleSubmit hands on as the form holds them
KeptFields == {"clientId", "issueDate", "dueDate", "status", "items",
               "lastMaintenanceDate"}

\* C25: the invoice a save writes has the clientId, issueDate, dueDate,
\* status, items and lastMaintenanceDate of the form data, only notes and
\* nextMaintenanceDate being derived; the save of an edited invoice writes
\* it under its id and with the invoiceNumber it had.
C25_OnlyNotesAndNextDate ==
    Saving =>
        /\ \A field \in KeptFields : Written[field] = done.formData[field]
        /\ Editing => /\ Written.id = done.invoice
                      /\ Written.invoiceNumber = Prior.invoiceNumber

\* C25's case: a stored invoice, paid and with a lastMaintenanceDate, is
\* edited (a due date, both flags) and saved, and the save derives notes and
\* a nextMaintenanceDate
C25_Witness ==
    /\ Saving /\ Editing
    /\ Written.status = "Pagada"
    /\ Written.lastMaintenanceDate = Date(2023, 9, 1)
    /\ Written.dueDate = Date(2024, 10, 15)
    /\ Written.dueDate # Prior.dueDate
    /\ Written.notes # done.formData.notes
    /\ Written.nextMaintenanceDate # done.formData.nextMaintenanceDate

====
